---------------------------- MODULE Spec2Model ----------------------------
(***************************************************************************)
(* muzik: the commands split, archive and workflow (commands/*.py) and the *)
(* chapter, metadata and lookup functions they use (core/*.py), with the   *)
(* files, caches and persisted playlist state they read and write.         *)
(*                                                                         *)
(* The specifications share the file-system variables:                     *)
(*   Spec         playlist workflow runs, killed or finished, with         *)
(*                recorded artifacts deleted between runs;                 *)
(*   SpecSplit    repeated `muzik split` invocations on one audio file;    *)
(*   SpecPool     the thread pool of one split;                            *)
(*   SpecChapters the pure functions, applied to inputs from small sets;   *)
(*   SpecResolve  the chapter resolver of the workflow on one file;        *)
(*   SpecLoad     the start of a playlist run on a stored state file;      *)
(*   SpecArchive  one run of `muzik archive` on a directory;               *)
(*   SpecSingle   workflow runs on the URL of one video.                   *)
(***************************************************************************)
EXTENDS Integers, FiniteSets, Sequences, TLC

\* ------------------------------------------------------------------ bounds
NumItems == 2          \* videos in the playlist, in playlist order 1..NumItems
MaxRuns == 2           \* workflow invocations explored
MaxChapters == 2       \* chapters a chapter definition lists
MaxSplitRuns == 2      \* split invocations explored by SpecSplit
MaxWorkers == 2        \* parallel ffmpeg jobs of one split (--jobs)
MaxLen == 2            \* lines of a sidecar, entries of a chapters array, tracks
MaxResolves == 2       \* runs of the resolver on the file
MaxEdits == 1          \* editor sessions within one review
MaxPrompts == 2        \* prompts after which the operator types a valid choice
MaxTracks == 3         \* tracks of a looked-up release

Items == 1..NumItems
Chapters == 1..MaxChapters

\* Output directories a split can be pointed at: "out" is splits/<stem>, the
\* directory the workflow always passes; "alt" is any other --output value.
Dirs == {"out", "alt"}

NoDir == [ex |-> FALSE, files |-> {}]

\* Python's None where a number is expected.
None == -1

VARIABLES
    \* ---- files on disk, per playlist item
    audio,      \* audio[v]: the downloaded audio file "<title> [v].flac" exists
    txt,        \* txt[v]: content of its .chapters.txt sidecar
    jsonch,     \* jsonch[v]: its .info.json exists and has a non-empty chapters array
    dirs,       \* dirs[v][d]: [ex, files]: directory d exists / chapter files in it
    \* ---- cache directory
    scache,     \* scache[<<v, c>>]: split_<hash(audio v)>_<hash(txt content c)>.txt
    ind,        \* ind[v]: yt_<v>.txt exists (individual download cache)
    disk,       \* disk[v]: record of v in playlist_<id>.json ("none": no record)
    \* ---- one workflow process
    pc, idx, mem, opts, af, sdv, exc, runs,
    \* ---- history (what the current run did), for stating the properties
    startdisk, invoked, dlres, resolved, splitres, tagres, unsaved, raised,
    \* ---- split invocations (SpecSplit)
    last, prev, dirty, nsplit,
    \* ---- the thread pool of one split (SpecPool)
    pool,
    \* ---- one application of a chapter function (SpecChapters)
    call,
    \* ---- the chapter resolver on one file (SpecResolve)
    fdir,       \* the directory of the file: file name -> content
    rs,         \* the resolver's position, locals and what it did
    \* ---- the start of one playlist run on a stored state file (SpecLoad)
    ld,         \* the stored text, the loaded state and what the run did with it
    \* ---- one run of the archive command on the directory (SpecArchive)
    ar,         \* its options, its position in the file list and what it did
    \* ---- workflow runs on the URL of one video (SpecSingle)
    sv          \* the options, position and lists of the run, and what it did

fsvars == <<audio, txt, jsonch, dirs, scache>>
wfvars == <<ind, disk, pc, idx, mem, opts, af, sdv, exc, runs>>
histvars == <<startdisk, invoked, dlres, resolved, splitres, tagres, unsaved, raised>>
splitvars == <<last, prev, dirty, nsplit>>
auxvars == <<pool, call, fdir, rs, ld, ar, sv>>
exceptpool == <<call, fdir, rs, ld, ar, sv>>
exceptcall == <<pool, fdir, rs, ld, ar, sv>>
exceptresolve == <<pool, call, ld, ar, sv>>
exceptload == <<pool, call, fdir, rs, ar, sv>>
exceptarchive == <<pool, call, fdir, rs, ld, sv>>
exceptsingle == <<pool, call, fdir, rs, ld, ar>>
vars == <<audio, txt, jsonch, dirs, scache, ind, disk, pc, idx, mem, opts, af,
          sdv, exc, runs, startdisk, invoked, dlres, resolved, splitres, tagres, unsaved, raised,
          last, prev, dirty, nsplit, pool, call, fdir, rs, ld, ar, sv>>

\* ------------------------------------------------------------ exceptions
\* download_cmd, split_cmd and organize_cmd leave through `raise typer.Exit(rc)`.
\* typer.Exit is click.exceptions.Exit, whose only attribute is exit_code;
\* SystemExit is the class that carries `code`.
NoExc == [cls |-> "none", exit_code |-> 0]
TyperExit(rc) == [cls |-> "typer.Exit", exit_code |-> rc]

\* getattr(exc, "code", 0): the attribute `code` of the caught exception, 0 when
\* the exception has no such attribute.
ExcCode(e) == IF e.cls = "SystemExit" THEN e.exit_code ELSE 0

\* -------------------------------------------------------------- chapters
\* A chapter is [index, title]; definition "b" repeats one title.
TitleOf(c, k) == IF c = "b" THEN 1 ELSE k
ChapterList(c) == {[index |-> k, title |-> TitleOf(c, k)] : k \in Chapters}

\* find_chapters: the text sidecar when present, else the JSON chapter array.
FindChapters(v) ==
    IF txt[v] # "absent" THEN ChapterList(txt[v])
    ELSE IF jsonch[v] THEN ChapterList("json") ELSE {}

\* ------------------------------------------------------------- split_cmd
\* What one call split_cmd(path of v, review, jobs, output=d, keep_source)
\* does, as a record: the exception it leaves through, how it ended, the
\* chapters an ffmpeg job was run for, the titles it reports as failed, and the
\* new state of the files it can touch.  rv is what the operator does in the
\* review loop ("off" when review is not requested; "edited": the list is
\* changed in the editor, then continue); bad is the set of chapter indices
\* whose ffmpeg invocation exits nonzero; used names the chapter definition
\* the jobs extract.
\* Lines 142-146: the cache key exists only when a .chapters.txt sidecar does.
CacheKeyNever(v) == <<>>
CacheKey(v) == IF txt[v] # "absent" THEN <<v, txt[v]>> ELSE <<>>

SplitEnd(v, d, e, how, jobs, failed, dir) ==
    [exc |-> e, how |-> how, jobs |-> jobs, failed |-> failed, used |-> "none",
     audio |-> audio[v], txt |-> txt[v], jsonch |-> jsonch[v],
     dir |-> dir,
     cache |-> IF CacheKey(v) # <<>> THEN scache[CacheKey(v)] ELSE "none"]

\* Lines 189-192: the titles of the chapters whose job reported failure.
FailedTitlesAll(chapters, bad) == {ch.title : ch \in chapters}
FailedTitles(chapters, bad) == {ch.title : ch \in {c \in chapters : c.index \in bad}}

\* Lines 207-213: the source and its sidecars after a successful split.
SourceAlwaysRemoved(v, keep) == [audio |-> FALSE, txt |-> "absent", jsonch |-> FALSE]
SourceAfterSplit(v, keep) ==
    IF keep THEN [audio |-> audio[v], txt |-> txt[v], jsonch |-> jsonch[v]]
    ELSE [audio |-> FALSE, txt |-> "absent", jsonch |-> FALSE]

\* Lines 123-126: edit_chapters returns the list the operator leaves; no
\* sidecar is rewritten.
Reviewed(found, rv) == IF rv = "edited" THEN "edited" ELSE found

SplitCmd(v, d, rv, keep, bad) ==
    LET used == Reviewed(IF txt[v] # "absent" THEN txt[v] ELSE "json", rv)
        chapters == IF FindChapters(v) = {} THEN {} ELSE ChapterList(used)
        made == [ex |-> TRUE, files |-> dirs[v][d].files]
        cache_key == CacheKey(v)
        cached == IF cache_key # <<>> THEN scache[cache_key] ELSE "none"
        \* Path(cached).exists(), evaluated after out_dir.mkdir()
        cachedExists == IF cached = "none" THEN FALSE
                        ELSE IF cached = d THEN TRUE ELSE dirs[v][cached].ex
        jobs == {ch.index : ch \in chapters}
        failed == FailedTitles(chapters, bad)
        extracted == made.files \cup (jobs \ bad)
        src == SourceAfterSplit(v, keep)
    IN  IF ~audio[v] THEN
            SplitEnd(v, d, TyperExit(1), "missing", {}, {}, dirs[v][d])
        ELSE IF chapters = {} THEN
            SplitEnd(v, d, TyperExit(1), "nochapters", {}, {}, dirs[v][d])
        ELSE IF rv = "abort" THEN
            SplitEnd(v, d, TyperExit(0), "aborted", {}, {}, dirs[v][d])
        ELSE IF cachedExists THEN
            SplitEnd(v, d, TyperExit(0), "cached", {}, {}, made)
        ELSE IF failed # {} THEN
            [SplitEnd(v, d, TyperExit(1), "failed", jobs, failed,
                      [ex |-> TRUE, files |-> extracted]) EXCEPT !.used = used]
        ELSE
            [exc |-> NoExc, how |-> "ok", jobs |-> jobs, failed |-> {}, used |-> used,
             audio |-> src.audio, txt |-> src.txt, jsonch |-> src.jsonch,
             dir |-> [ex |-> TRUE, files |-> extracted],
             cache |-> IF cache_key # <<>> THEN d ELSE "none"]

\* The effect of a split_cmd call with outcome r on the files and the cache.
ApplySplit(v, d, r) ==
    /\ audio' = [audio EXCEPT ![v] = r.audio]
    /\ jsonch' = [jsonch EXCEPT ![v] = r.jsonch]
    /\ dirs' = [dirs EXCEPT ![v][d] = r.dir]
    /\ scache' = IF CacheKey(v) # <<>>
                 THEN [scache EXCEPT ![CacheKey(v)] = r.cache] ELSE scache
    /\ txt' = [txt EXCEPT ![v] = r.txt]

\* ---------------------------------------------------------- initial state
NoRec == [status |-> "none", split_dir |-> ""]
NoOpts == [no_split |-> FALSE, no_organize |-> FALSE, review |-> FALSE,
           keep_source |-> FALSE]
NoRun == [d |-> "out", keep |-> FALSE, bad |-> {},
          txt |-> "absent", how |-> "none", jobs |-> {}, failed |-> {},
          used |-> "none", exc |-> NoExc, dirty |-> {}]
NoPrev == [d |-> "out", keep |-> FALSE, txt |-> "absent", how |-> "none"]

\* What the run has done for the video it is working on: the tools invoked,
\* whether the resolver returned chapters, how the split and the tagger ended;
\* and the phases completed since the state was last saved.
NoHistory ==
    /\ invoked = {} /\ dlres = "none" /\ resolved = FALSE
    /\ splitres = "none" /\ tagres = "none"
    /\ unsaved = 0 /\ raised = FALSE

ForgetHistory ==
    /\ invoked' = {} /\ dlres' = "none" /\ resolved' = FALSE
    /\ splitres' = "none" /\ tagres' = "none"
    /\ unsaved' = 0 /\ raised' = FALSE

IdleProcess ==
    /\ pc = "idle" /\ idx = 0 /\ runs = 0
    /\ mem = [v \in Items |-> NoRec]
    /\ opts = NoOpts /\ af = FALSE /\ sdv = FALSE /\ exc = NoExc
    /\ startdisk = [v \in Items |-> NoRec]
    /\ NoHistory

NoSplitRuns == last = NoRun /\ prev = NoPrev /\ dirty = {} /\ nsplit = 0

\* No split is executing its jobs.
IdlePool == [phase |-> "idle", d |-> "out", keep |-> FALSE, jobs |-> 0, cpu |-> 1,
             workers |-> 0,
             pending |-> {}, running |-> {}, done |-> <<>>, bad |-> {},
             result |-> "none", failed |-> {}]

\* No chapter function has been applied.
NoCall == [fn |-> "none", made |-> "", input |-> <<>>, output |-> <<>>, read |-> {}]

\* The resolver is not running; nothing is known of the file's directory.
IdleResolver ==
    [pc |-> "idle", stem |-> <<"Title [id]">>, run |-> 0, no_split |-> FALSE,
     found |-> <<>>, mb |-> <<>>,
     looked |-> <<>>, ret |-> <<>>, probes |-> 0, queries |-> 0, prompts |-> 0,
     wrote |-> FALSE, edits |-> 0, said |-> {}, saved |-> <<>>,
     probe |-> [how |-> "none", duration |-> 0], raised |-> "",
     failed |-> {}, then |-> ""]
\* ---- the stored playlist state, playlist_<id>.json
\* A JSON value is its type and its size (length, number of keys, or the
\* number itself); Python's None and JSON's null are the same value.
Val(t, size) == [t |-> t, size |-> size]
Null == Val("null", 0)
NoKey == Val("missing", 0)
\* An entry of "videos": for a dict, its "status" ("" without the key) and
\* whether it has the key "audio_file".
EntryValue(t, size, status, audio_file) ==
    [t |-> t, size |-> size, status |-> status, audio_file |-> audio_file]
NoEntry == EntryValue("missing", 0, "", FALSE)
StoredEntries ==
    {NoEntry, EntryValue("null", 0, "", FALSE), EntryValue("string", 1, "", FALSE),
     EntryValue("list", 0, "", FALSE), EntryValue("dict", 0, "", FALSE),
     EntryValue("dict", 1, "organized", FALSE), EntryValue("dict", 1, "downloaded", FALSE),
     EntryValue("dict", 2, "downloaded", TRUE)}
NoEntries == [v \in Items |-> NoEntry]
Stored(file, top, videos, entries) ==
    [file |-> file, top |-> top, videos |-> videos, entries |-> entries]
NoFile == Stored("absent", NoKey, NoKey, NoEntries)
\* What the state file can hold: nothing, text that is not JSON, bytes that
\* are not text, a JSON value that is not an object, an object whose
\* "videos" is not an object, and an object of entries of every shape.
StoredFiles ==
    {Stored(f, NoKey, NoKey, NoEntries) : f \in {"absent", "empty", "not json", "bad bytes"}}
    \cup {Stored("json", Val(t, n), NoKey, NoEntries) :
             t \in {"number", "string", "list"}, n \in {0, 1}}
    \cup {Stored("json", Val(t, 0), NoKey, NoEntries) : t \in {"null", "false", "true", "dict"}}
    \cup {Stored("json", Val("dict", 1), Val(t, n), NoEntries) :
             t \in {"missing", "null", "number", "string", "list"}, n \in {0, 1}}
    \cup {Stored("json", Val("dict", 1),
                 Val("dict", Cardinality({v \in Items : e[v].t # "missing"})), e) :
             e \in [Items -> StoredEntries]}
\* bool(value)
Truthy(v) ==
    CASE v.t \in {"missing", "null", "false"} -> FALSE
      [] v.t = "true" -> TRUE
      [] OTHER -> v.size > 0
\* The state of a playlist never seen: {}.
EmptyDict == [top |-> Val("dict", 0), videos |-> NoKey, entries |-> NoEntries]
NoState == [top |-> Null, videos |-> NoKey, entries |-> NoEntries]
NotLoading ==
    [pc |-> "idle", stored |-> NoFile, dry_run |-> FALSE, state |-> NoState,
     raised |-> "", tracked |-> 0, i |-> 0, did |-> <<>>,
     archive |-> {}, archived |-> {}]
\* The archive command is not running.
NoArchive ==
    [pc |-> "idle", dry_run |-> FALSE, skip_split |-> FALSE, skip_organize |-> FALSE,
     keep_source |-> FALSE, files |-> {}, i |-> 0, examined |-> {}, split |-> {},
     processed |-> 0, skipped |-> 0, how |-> <<>>, exc |-> NoExc, tagger |-> FALSE]
\* No single-video run has been made.
NoSingle ==
    [pc |-> "idle", runs |-> 0, dry_run |-> FALSE, no_split |-> FALSE,
     no_organize |-> FALSE, review |-> FALSE, keep_source |-> FALSE,
     cached |-> FALSE, had_file |-> FALSE, had_dir |-> FALSE,
     audio_files |-> FALSE, pre_split_dirs |-> FALSE, albums |-> FALSE,
     singles |-> FALSE, split_dirs |-> FALSE,
     invoked |-> {}, tagged |-> {}, dl |-> "none", split |-> "none",
     wrote |-> FALSE, exit |-> None]
NoAux ==
    /\ pool = IdlePool /\ call = NoCall
    /\ fdir = <<>> /\ rs = IdleResolver
    /\ ld = NotLoading /\ ar = NoArchive /\ sv = NoSingle

\* ------------------------------------------ chapters.py on concrete files
\* A .chapters.txt file is its sequence of lines; a line that starts with a
\* timestamp is [kind "chapter", ts, title] with ts the numbers between the
\* colons (<<m, s>> or <<h, m, s>>) and title the text after it, as written.
\* A Chapter is [index, start, end, title], with end = None for "no end".

SeqsUpTo(S, n) == UNION {[1..k -> S] : k \in 0..n}

\* Titles as they can stand in a file, and str.strip() on them.
Titles == {"A", "B", " A", " "}
Strip(t) == CASE t = " A" -> "A" [] t = " " -> "" [] OTHER -> t

ts_to_secs(ts) ==
    IF Len(ts) = 3 THEN ts[1] * 3600 + ts[2] * 60 + ts[3]
    ELSE ts[1] * 60 + ts[2]

secs_to_ts(secs) == <<secs \div 3600, (secs % 3600) \div 60, secs % 60>>

BlankLine == [kind |-> "blank", ts |-> <<0, 0>>, title |-> ""]
JunkLine == [kind |-> "junk", ts |-> <<0, 0>>, title |-> ""]

\* _CHAPTER_RE on the stripped line: a timestamp, whitespace, and at least
\* one more character.
MatchesChapterRe(line) == line.kind = "chapter" /\ Strip(line.title) # ""

parse_chapters_txt(lines) ==
    LET raw == SelectSeq(lines, MatchesChapterRe) IN
    [i \in 1..Len(raw) |->
        [index |-> i, start |-> ts_to_secs(raw[i].ts),
         end |-> IF i + 1 <= Len(raw) THEN ts_to_secs(raw[i + 1].ts) ELSE None,
         title |-> Strip(raw[i].title)]]

\* int(float(x)) of a JSON time; the model counts JSON times in half seconds.
IntFloat(x) == x \div 2

\* Lines 112-117: one entry of the chapters array; title "" is a missing or
\* empty title.
JsonChapter(entries, i) ==
    [index |-> i, start |-> IntFloat(entries[i].start_time),
     end |-> IF entries[i].end_time = None THEN None
             ELSE IntFloat(entries[i].end_time),
     title |-> IF entries[i].title = "" THEN "Track " \o ToString(i)
               ELSE entries[i].title]

\* Lines 119-127: a missing end becomes the next chapter's start.
FillNoEnds(chs) == chs
FillMissingEnds(chs) ==
    [i \in 1..Len(chs) |->
        IF i < Len(chs) /\ chs[i].end = None
        THEN [chs[i] EXCEPT !.end = chs[i + 1].start] ELSE chs[i]]

parse_chapters_json(entries) ==
    FillMissingEnds([i \in 1..Len(entries) |-> JsonChapter(entries, i)])

serialize_chapters(chs) ==
    [i \in 1..Len(chs) |->
        [kind |-> "chapter", ts |-> secs_to_ts(chs[i].start), title |-> chs[i].title]]

\* musicbrainz.py: cumulative track lengths (milliseconds) to chapters.
LengthOfTrack(tracks, i) == IF i = 0 THEN 0 ELSE tracks[i].length \div 1000
RECURSIVE EndOfTrack(_, _)
EndOfTrack(tracks, i) ==
    IF i = 0 THEN 0 ELSE EndOfTrack(tracks, i - 1) + tracks[i].length \div 1000

tracks_to_chapters(tracks) ==
    IF \E i \in DOMAIN tracks : tracks[i].length = None THEN <<>>
    ELSE [i \in 1..Len(tracks) |->
            [index |-> i, start |-> EndOfTrack(tracks, i - 1),
             end |-> EndOfTrack(tracks, i), title |-> tracks[i].title]]

\* lookup_chapters.  An artist name is its text and the suffix it ends with;
\* a query is the artist it names (the empty artist for the album-only query).
EnsembleSuffixes == {" Project", " Band", " Trio", " Quartet", " Orchestra", " Ensemble"}
Artist(name, suffix) == [name |-> name, suffix |-> suffix]
NoArtist == Artist("", "")
\* Lines 107-110: the artist, then the artist with an ensemble suffix stripped.
artist_variants(artist) ==
    <<artist>> \o (IF artist.suffix \in EnsembleSuffixes
                   THEN <<Artist(artist.name, "")>> ELSE <<>>)
\* Lines 119-122: one query per artist variant, then the album-only query.
AlbumOnlyFirst(artist) == <<NoArtist>> \o artist_variants(artist)
Queries(artist) == artist_variants(artist) \o <<NoArtist>>

\* Lines 124-140: the queries in order.  service[q] is what the service does
\* for query q: search_releases raises (kind "error") or returns a release
\* list, best first; a release has or lacks an id, and get_tracklist for it
\* raises ("unfetchable") or returns its tracks.
RECURSIVE LookupFrom(_, _, _, _)
LookupFrom(queries, i, service, asked) ==
    IF i > Len(queries) THEN [chapters |-> <<>>, asked |-> asked, raised |-> FALSE]
    ELSE LET q == queries[i]
             now == Append(asked, q)
             releases == service[q].releases
             best == releases[1]
             chapters == tracks_to_chapters(best.tracks)
         IN  IF service[q].kind = "error"
             THEN [chapters |-> <<>>, asked |-> now, raised |-> TRUE]
             ELSE IF releases = <<>> THEN LookupFrom(queries, i + 1, service, now)
             ELSE IF ~best.id THEN LookupFrom(queries, i + 1, service, now)
             ELSE IF best.unfetchable
             THEN [chapters |-> <<>>, asked |-> now, raised |-> TRUE]
             ELSE IF chapters # <<>>
             THEN [chapters |-> chapters, asked |-> now, raised |-> FALSE]
             ELSE LookupFrom(queries, i + 1, service, now)

lookup_chapters(artist, service) == LookupFrom(Queries(artist), 1, service, <<>>)

\* A path is the sequence of the dot-separated parts of its file name, and a
\* suffix the parts it adds: ".chapters.txt" is <<"chapters", "txt">>.
\* Path.with_suffix replaces the part after the last dot, or appends when the
\* name has no dot.
with_suffix(path, suffix) ==
    (IF Len(path) > 1 THEN SubSeq(path, 1, Len(path) - 1) ELSE path) \o suffix

ChaptersTxt == <<"chapters", "txt">>
InfoJson == <<"info", "json">>

\* find_chapters on an audio path in a directory, a function from the names
\* of its files to their contents; `read` is the set of sidecars it parsed.
find_chapters(audio_path, dir) ==
    LET base == with_suffix(audio_path, <<>>)
        txtp == with_suffix(base, ChaptersTxt)
        jsn == with_suffix(base, InfoJson)
    IN  IF txtp \in DOMAIN dir /\ Len(dir[txtp]) > 0
        THEN [chapters |-> parse_chapters_txt(dir[txtp]), read |-> {"txt"}]
        ELSE IF jsn \in DOMAIN dir
        THEN [chapters |-> parse_chapters_json(dir[jsn]), read |-> {"json"}]
        ELSE [chapters |-> <<>>, read |-> {}]

\* ---- the output file of one chapter
\* A text is the sequence of its characters.  safe_filename, lines 176-184:
\* unsafe characters are removed, surrounding whitespace is stripped, each
\* run of whitespace becomes one hyphen, runs of hyphens are collapsed,
\* surrounding hyphens are stripped, the rest is lowercased; "unknown" when
\* nothing is left.
safe_filename(name) ==
    LET RECURSIVE strip(_, _)
        strip(t, c) ==
            IF t = <<>> THEN t
            ELSE IF Head(t) = c THEN strip(Tail(t), c)
            ELSE IF t[Len(t)] = c THEN strip(SubSeq(t, 1, Len(t) - 1), c)
            ELSE t
        RECURSIVE collapse(_, _)
        collapse(t, c) ==
            IF Len(t) < 2 THEN t
            ELSE IF t[1] = c /\ t[2] = c THEN collapse(Tail(t), c)
            ELSE <<t[1]>> \o collapse(Tail(t), c)
        safe == SelectSeq(name, LAMBDA c : c \notin {"?", ":", "/"})
        spaced == collapse(strip(safe, " "), " ")
        hyphened == [i \in DOMAIN spaced |-> IF spaced[i] = " " THEN "-" ELSE spaced[i]]
        slug == strip(collapse(hyphened, "-"), "-")
        lower == [i \in DOMAIN slug |-> IF slug[i] = "A" THEN "a" ELSE slug[i]]
    IN  IF lower = <<>> THEN <<"u", "n", "k", "n", "o", "w", "n">> ELSE lower

\* f"{index:02d}": the decimal digits, with a leading zero below 10.
Unnumbered(index) == <<>>
Padded(index) ==
    LET digit(d) == <<"0", "1", "2", "3", "4", "5", "6", "7", "8", "9">>[d + 1]
        RECURSIVE digits(_)
        digits(n) == IF n < 10 THEN <<digit(n)>>
                     ELSE digits(n \div 10) \o <<digit(n % 10)>>
    IN  IF index < 10 THEN <<"0">> \o digits(index) ELSE digits(index)

\* _split_track, lines 44-45: the name of the file the job writes in out_dir.
out_path(chapter) ==
    Padded(chapter.index) \o <<"-">> \o safe_filename(chapter.title) \o <<".flac">>

\* ---- audio.py: metadata of an audio file
\* The texts of the model.  "" is a JSON value that is missing, null or empty,
\* and a tag that is missing.
\* path.stem of a path:
StemText(path) ==
    IF Len(path) = 2 THEN path[1] ELSE path[1] \o "." \o path[2]
\* _parse_title: a trailing "(year)" or "[year]" is cut off as the year; the
\* rest is "artist - album", or the album alone.
parse_title(title) ==
    IF title = "PA - PAlb (1998)"
    THEN [artist |-> "PA", album |-> "PAlb", year |-> "1998"]
    ELSE [artist |-> "", album |-> title, year |-> ""]
\* text[:4]
First4(text) ==
    CASE text = "20190101" -> "2019"
      [] text = "2001-05-01" -> "2001"
      [] OTHER -> text
Or(value, default) == IF value = "" THEN default ELSE value

Metadata(source, title, artist, album, year) ==
    [source |-> source, title |-> title, artist |-> artist, album |-> album,
     year |-> year]

\* Lines 75-100: the metadata the .info.json gives.
FromInfoJson(path, data) ==
    LET title == Or(data.title, StemText(path))
        artist == data.artist
        uploader == Or(data.uploader, "Unknown Artist")
        album == Or(data.album, title)
        year_raw == Or(data.upload_date, data.date)
        year == IF year_raw # "" THEN First4(year_raw) ELSE "Unknown"
        parsed == parse_title(title)
    IN  IF artist = "" \/ artist = "null"
        THEN Metadata("sidecar", title, Or(parsed.artist, uploader),
                      IF data.album = "" THEN Or(parsed.album, title) ELSE album,
                      IF parsed.year # "" /\ year = "Unknown" THEN parsed.year ELSE year)
        ELSE Metadata("sidecar", title, artist, album, year)

\* Lines 103-116: the metadata the tags ffprobe reports give.
FromProbe(path, tags) ==
    Metadata("probe", Or(tags.title, StemText(path)), Or(tags.artist, "Unknown Artist"),
             Or(tags.album, "Unknown Album"),
             IF tags.date # "" THEN First4(tags.date) ELSE "Unknown")

\* Lines 118-123.
Fallback(path) ==
    Metadata("fallback", StemText(path), "Unknown Artist", "Unknown Album", "Unknown")

\* extract_metadata on an audio path in a directory whose .info.json, when it
\* has one, is dir[name]: text that is not JSON, JSON that is not an object,
\* or an object; probed is what probe() does.
extract_metadata(path, dir, probed) ==
    LET base == with_suffix(path, <<>>)
        info_path == with_suffix(base, InfoJson)
        tried == IF info_path \in DOMAIN dir /\ dir[info_path].kind = "object"
                 THEN <<FromInfoJson(path, dir[info_path])>> ELSE <<>>
    IN  IF tried # <<>> THEN tried[1]
        ELSE IF probed.how = "ok" THEN FromProbe(path, probed.tags)
        ELSE Fallback(path)

\* ------------------------------------------------- SpecSplit: muzik split
\* The operator runs `muzik split` repeatedly on the audio file of item
\* SplitFile, and between runs may edit the text sidecar or remove an output
\* directory.
SplitFile == 1

InitSplit ==
    /\ audio = [v \in Items |-> v = SplitFile]
    /\ txt \in [Items -> {"absent", "a"}]
    /\ \A v \in Items : v # SplitFile => txt[v] = "absent"
    /\ jsonch \in [Items -> BOOLEAN]
    /\ \A v \in Items : v # SplitFile => ~jsonch[v]
    /\ dirs = [v \in Items |-> [d \in Dirs |-> NoDir]]
    /\ scache = [k \in Items \X {"a", "b"} |-> "none"]
    /\ ind = [v \in Items |-> FALSE]
    /\ disk = [v \in Items |-> NoRec]
    /\ IdleProcess
    /\ NoSplitRuns
    /\ NoAux

SplitRun ==
    /\ nsplit < MaxSplitRuns
    /\ \E d \in Dirs, rv \in {"off", "continue", "edited", "abort"}, keep \in BOOLEAN,
          bad \in SUBSET Chapters :
          LET r == SplitCmd(SplitFile, d, rv, keep, bad) IN
          /\ r.jobs = {} => bad = {}
          /\ ApplySplit(SplitFile, d, r)
          /\ last' = [d |-> d, keep |-> keep, bad |-> bad,
                      txt |-> txt[SplitFile], how |-> r.how, jobs |-> r.jobs,
                      failed |-> r.failed, used |-> r.used, exc |-> r.exc,
                      dirty |-> dirty]
    /\ prev' = [d |-> last.d, keep |-> last.keep, txt |-> last.txt,
                how |-> last.how]
    /\ dirty' = {}
    /\ nsplit' = nsplit + 1
    /\ UNCHANGED <<wfvars, histvars, auxvars>>

EditSidecar ==
    /\ txt[SplitFile] # "absent"
    /\ txt' = [txt EXCEPT ![SplitFile] = IF @ = "a" THEN "b" ELSE "a"]
    /\ dirty' = dirty \cup {"input"}
    /\ UNCHANGED <<audio, jsonch, dirs, scache, wfvars, histvars, auxvars, last, prev, nsplit>>

RemoveOutput ==
    /\ \E d \in Dirs :
          /\ dirs[SplitFile][d].ex
          /\ dirs' = [dirs EXCEPT ![SplitFile][d] = NoDir]
    /\ dirty' = dirty \cup {"output"}
    /\ UNCHANGED <<audio, txt, jsonch, scache, wfvars, histvars, auxvars, last, prev, nsplit>>

NextSplit == SplitRun \/ EditSidecar \/ RemoveOutput

SpecSplit == InitSplit /\ [][NextSplit]_vars

\* ------------------------------------------- SpecPool: the jobs of a split
\* split_cmd from the point it creates the thread pool (lines 182-193): one
\* future per chapter, at most `workers` of them executing, finishing in any
\* order; the lines after the `with` block run when the pool has shut down.
Range(q) == {q[i] : i \in DOMAIN q}

\* The --jobs option (default 0) and what os.cpu_count() returns (None when
\* the count is unknown).
JobsValues == (0 - 1)..MaxWorkers
CpuCounts == {None, 1, 6, 64}

\* Lines 154-157: if jobs <= 0: cpu = os.cpu_count() or 4;
\* jobs = max(2, min(8, cpu // 2))
Max(a, b) == IF a >= b THEN a ELSE b
Min(a, b) == IF a <= b THEN a ELSE b
CpuCount(cpu) == IF cpu = None \/ cpu = 0 THEN 4 ELSE cpu
HalfTheCpus(cpu) == CpuCount(cpu) \div 2
DefaultJobs(cpu) == Max(2, Min(8, CpuCount(cpu) \div 2))
Parallelism(jobs, cpu) == IF jobs <= 0 THEN DefaultJobs(cpu) ELSE jobs

InitPool ==
    /\ audio = [v \in Items |-> v = SplitFile]
    /\ txt \in [Items -> {"absent", "a"}]
    /\ \A v \in Items : v # SplitFile => txt[v] = "absent"
    /\ jsonch = [v \in Items |-> v = SplitFile]
    /\ dirs = [v \in Items |-> [d \in Dirs |-> NoDir]]
    /\ scache = [k \in Items \X {"a", "b"} |-> "none"]
    /\ ind = [v \in Items |-> FALSE]
    /\ disk = [v \in Items |-> NoRec]
    /\ IdleProcess
    /\ NoSplitRuns
    /\ NoAux

\* Lines 109-188: the split reaches the pool (file and chapters found, no
\* cache hit), creates out_dir and submits a job for every chapter.
PoolSubmit ==
    /\ pool.phase # "running" /\ nsplit < MaxSplitRuns
    /\ \E d \in Dirs, keep \in BOOLEAN, jobs \in JobsValues, cpu \in CpuCounts :
          /\ SplitCmd(SplitFile, d, "off", keep, {}).how = "ok"
          /\ dirs' = [dirs EXCEPT ![SplitFile][d].ex = TRUE]
          /\ pool' = [phase |-> "running", d |-> d, keep |-> keep,
                      jobs |-> jobs, cpu |-> cpu, workers |-> Parallelism(jobs, cpu),
                      pending |-> {ch.index : ch \in FindChapters(SplitFile)},
                      running |-> {}, done |-> <<>>, bad |-> {},
                      result |-> "none", failed |-> {}]
    /\ nsplit' = nsplit + 1
    /\ UNCHANGED <<audio, txt, jsonch, scache, wfvars, histvars, last, prev, dirty,
                   exceptpool>>

\* A worker thread takes a queued job.
JobStart ==
    /\ pool.phase = "running"
    /\ Cardinality(pool.running) < pool.workers
    /\ \E k \in pool.pending :
          pool' = [pool EXCEPT !.pending = @ \ {k}, !.running = @ \cup {k}]
    /\ UNCHANGED <<fsvars, wfvars, histvars, splitvars, exceptpool>>

\* _split_track returns: ffmpeg wrote the chapter's file, or failed.
JobFinish ==
    /\ pool.phase = "running"
    /\ \E k \in pool.running, ok \in BOOLEAN :
          /\ pool' = [pool EXCEPT !.running = @ \ {k}, !.done = Append(@, k),
                                  !.bad = IF ok THEN @ ELSE @ \cup {k}]
          /\ dirs' = IF ok THEN [dirs EXCEPT ![SplitFile][pool.d].files = @ \cup {k}]
                     ELSE dirs
    /\ UNCHANGED <<audio, txt, jsonch, scache, wfvars, histvars, splitvars, exceptpool>>

\* The `with ThreadPoolExecutor` block is left when every future is done.
PoolShutsDownOnFailure(p) == p.bad # {} \/ (p.pending = {} /\ p.running = {})
PoolShutDown(p) == p.pending = {} /\ p.running = {}

\* Lines 195-213: the result, the cache write and the clean-up.
PoolClose ==
    /\ pool.phase = "running"
    /\ PoolShutDown(pool)
    /\ LET r == SplitCmd(SplitFile, pool.d, "off", pool.keep, pool.bad) IN
          /\ ApplySplit(SplitFile, pool.d, r)
          /\ pool' = [pool EXCEPT !.phase = "closed", !.result = r.how,
                                  !.failed = r.failed]
    /\ UNCHANGED <<wfvars, histvars, splitvars, exceptpool>>

NextPool == PoolSubmit \/ JobStart \/ JobFinish \/ PoolClose

SpecPool == InitPool /\ [][NextPool]_vars

\* --------------------------------- SpecChapters: the chapter functions
\* Each step applies one function of chapters.py / musicbrainz.py to an input
\* drawn from the sets below and records the call.
TsTexts == {<<0, 0>>, <<1, 75>>, <<1, 0, 1>>}
TxtLines ==
    {[kind |-> "chapter", ts |-> t, title |-> x] : t \in TsTexts, x \in Titles}
        \cup {BlankLine, JunkLine}
JsonEntries ==
    [start_time : {0, 121, 7201}, end_time : {None, 121, 150, 7201},
     title : {"", "A"}]
MbTracks == [length : {None, 59999, 3600000}, title : {"A", " A", " "}]

ChapterLine == [kind |-> "chapter", ts |-> <<0, 0>>, title |-> "A"]
FoundTxtFiles ==
    {[exists |-> FALSE, content |-> <<>>], [exists |-> TRUE, content |-> <<>>],
     [exists |-> TRUE, content |-> <<JunkLine>>],
     [exists |-> TRUE, content |-> <<ChapterLine>>]}
FoundJsonFiles ==
    {[exists |-> FALSE, content |-> <<>>], [exists |-> TRUE, content |-> <<>>],
     [exists |-> TRUE,
      content |-> <<[start_time |-> 0, end_time |-> None, title |-> "B"]>>]}

\* Stems of audio file names "<title> [<id>]", without and with a dot in the
\* title, and the directory holding the sidecars "<stem>.chapters.txt" and
\* "<stem>.info.json" of such a file.
Stems == {<<"Title [id]">>, <<"Vol", " 2 [id]">>}
AudioPath(stem) == stem \o <<"flac">>
Sidecars(stem, txtf, jsnf) ==
    LET tn == stem \o ChaptersTxt
        jn == stem \o InfoJson
    IN  [n \in (IF txtf.exists THEN {tn} ELSE {}) \cup (IF jsnf.exists THEN {jn} ELSE {})
            |-> IF n = tn THEN txtf.content ELSE jsnf.content]

InitChapters ==
    /\ audio = [v \in Items |-> FALSE]
    /\ txt = [v \in Items |-> "absent"]
    /\ jsonch = [v \in Items |-> FALSE]
    /\ dirs = [v \in Items |-> [d \in Dirs |-> NoDir]]
    /\ scache = [k \in Items \X {"a", "b"} |-> "none"]
    /\ ind = [v \in Items |-> FALSE]
    /\ disk = [v \in Items |-> NoRec]
    /\ IdleProcess
    /\ NoSplitRuns
    /\ NoAux

ParseTxt ==
    /\ call.fn = "none"
    /\ \E lines \in SeqsUpTo(TxtLines, MaxLen) :
          call' = [fn |-> "parse_chapters_txt", made |-> "", input |-> lines,
                   output |-> parse_chapters_txt(lines), read |-> {}]
    /\ UNCHANGED <<fsvars, wfvars, histvars, splitvars, exceptcall>>

ParseJson ==
    /\ call.fn = "none"
    /\ \E entries \in SeqsUpTo(JsonEntries, MaxLen) :
          call' = [fn |-> "parse_chapters_json", made |-> "", input |-> entries,
                   output |-> parse_chapters_json(entries), read |-> {}]
    /\ UNCHANGED <<fsvars, wfvars, histvars, splitvars, exceptcall>>

TracksToChapters ==
    /\ call.fn = "none"
    /\ \E tracks \in SeqsUpTo(MbTracks, MaxTracks) :
          call' = [fn |-> "tracks_to_chapters", made |-> "", input |-> tracks,
                   output |-> tracks_to_chapters(tracks), read |-> {}]
    /\ UNCHANGED <<fsvars, wfvars, histvars, splitvars, exceptcall>>

\* parse_chapters_txt on the text serialize_chapters writes for a chapter
\* sequence one of the three constructors returned.
RoundTrip ==
    /\ call.fn \in {"parse_chapters_txt", "parse_chapters_json", "tracks_to_chapters"}
    /\ call.output # <<>>
    /\ call' = [fn |-> "roundtrip", made |-> call.fn, input |-> call.output,
                output |-> parse_chapters_txt(serialize_chapters(call.output)),
                read |-> {}]
    /\ UNCHANGED <<fsvars, wfvars, histvars, splitvars, exceptcall>>

\* The artists looked up, the releases the service knows and its answers.
Artists == {Artist("Miles", ""), Artist("Miles", " Trio"), Artist("Miles", " Jr")}
Release(id, unfetchable, tracks) ==
    [id |-> id, unfetchable |-> unfetchable, tracks |-> tracks]
Releases ==
    {Release(TRUE, FALSE, <<[length |-> 59999, title |-> "A"]>>),
     Release(TRUE, FALSE, <<[length |-> 59999, title |-> "A"],
                            [length |-> None, title |-> "B"]>>),
     Release(FALSE, FALSE, <<[length |-> 59999, title |-> "A"]>>),
     Release(TRUE, TRUE, <<>>)}
Answers ==
    {[kind |-> "error", releases |-> <<>>]}
        \cup {[kind |-> "ok", releases |-> rl] : rl \in SeqsUpTo(Releases, MaxLen)}

LookupChapters ==
    /\ call.fn = "none"
    /\ \E artist \in Artists :
       \E service \in [Range(Queries(artist)) -> Answers] :
          call' = [fn |-> "lookup_chapters", made |-> "",
                   input |-> <<artist, service>>,
                   output |-> lookup_chapters(artist, service), read |-> {}]
    /\ UNCHANGED <<fsvars, wfvars, histvars, splitvars, exceptcall>>

\* The .info.json files and the probe outcomes metadata is extracted from.
NoData ==
    [kind |-> "absent", title |-> "", artist |-> "", album |-> "", uploader |-> "",
     upload_date |-> "", date |-> ""]
InfoFiles ==
    {[NoData EXCEPT !.kind = k] : k \in {"absent", "unparseable", "list"}}
        \cup [kind : {"object"}, title : {"", "PA - PAlb (1998)", "Name"},
              artist : {"", "null", "JA"}, album : {"", "JAlb"}, uploader : {"", "Up"},
              upload_date : {"", "20190101"}, date : {"", "2001-05-01"}]
NoTags == [title |-> "", artist |-> "", album |-> "", date |-> ""]
MetaProbes ==
    {[how |-> h, tags |-> NoTags] : h \in {"OSError", "ValueError", "ok"}}
        \cup {[how |-> "ok", tags |-> t] :
                 t \in {[title |-> "PT", artist |-> "PArt", album |-> "PAlb2",
                         date |-> "2001-05-01"],
                        [NoTags EXCEPT !.title = "PT"]}}
InfoSidecar(stem, info) ==
    [n \in (IF info.kind = "absent" THEN {} ELSE {stem \o InfoJson}) |-> info]

ExtractMetadata ==
    /\ call.fn = "none"
    /\ \E stem \in Stems, info \in InfoFiles, probed \in MetaProbes :
          call' = [fn |-> "extract_metadata", made |-> "",
                   input |-> <<stem, info, probed>>,
                   output |-> extract_metadata(AudioPath(stem), InfoSidecar(stem, info),
                                               probed),
                   read |-> {}]
    /\ UNCHANGED <<fsvars, wfvars, histvars, splitvars, exceptcall>>

\* Two chapters of one split: distinct indices, any titles.
TitleChars == {"A", "a", "?", " ", "-", "0"}
TrackIndices == {1, 2, 10, 100}

OutputPaths ==
    /\ call.fn = "none"
    /\ \E i \in TrackIndices, j \in TrackIndices :
       \E s \in SeqsUpTo(TitleChars, MaxLen), t \in SeqsUpTo(TitleChars, MaxLen) :
          LET one == [index |-> i, title |-> s]
              other == [index |-> j, title |-> t]
          IN  /\ i < j
              /\ call' = [fn |-> "out_path", made |-> "", input |-> <<one, other>>,
                          output |-> <<out_path(one), out_path(other)>>, read |-> {}]
    /\ UNCHANGED <<fsvars, wfvars, histvars, splitvars, exceptcall>>

Discover ==
    /\ call.fn = "none"
    /\ \E stem \in Stems, txtf \in FoundTxtFiles, jsnf \in FoundJsonFiles :
          LET r == find_chapters(AudioPath(stem), Sidecars(stem, txtf, jsnf)) IN
          call' = [fn |-> "find_chapters", made |-> "",
                   input |-> <<stem, txtf, jsnf>>,
                   output |-> r.chapters, read |-> r.read]
    /\ UNCHANGED <<fsvars, wfvars, histvars, splitvars, exceptcall>>

NextChapters ==
    \/ ParseTxt \/ ParseJson \/ TracksToChapters \/ RoundTrip \/ Discover
    \/ LookupChapters \/ ExtractMetadata \/ OutputPaths

SpecChapters == InitChapters /\ [][NextChapters]_vars

\* ------------------------------ SpecResolve: _get_chapters_for on one file
\* The resolver runs MaxResolves times on the audio file <rs.stem>.flac,
\* whose directory fdir holds its sidecars.  rs.said collects the operator's
\* answers, rs.probes / queries / prompts count what a run did, rs.failed
\* says in what ways a lookup that gave nothing failed.
MIN_ALBUM_DURATION == 480

ResolvedAudio == AudioPath(rs.stem)

\* Track lists the lookup service can answer with, and texts the operator can
\* leave in the editor.
LookedUpTracks == SeqsUpTo([length : {None, 59999, 3600000}, title : {"A", "B"}], MaxLen)
EditedTexts ==
    {<<>>, <<JunkLine>>, <<ChapterLine>>,
     <<[kind |-> "chapter", ts |-> <<1, 75>>, title |-> "B"], ChapterLine>>}

InitResolve ==
    /\ audio = [v \in Items |-> FALSE]
    /\ txt = [v \in Items |-> "absent"]
    /\ jsonch = [v \in Items |-> FALSE]
    /\ dirs = [v \in Items |-> [d \in Dirs |-> NoDir]]
    /\ scache = [k \in Items \X {"a", "b"} |-> "none"]
    /\ ind = [v \in Items |-> FALSE]
    /\ disk = [v \in Items |-> NoRec]
    /\ IdleProcess
    /\ NoSplitRuns
    /\ pool = IdlePool /\ call = NoCall /\ ld = NotLoading /\ ar = NoArchive
    /\ sv = NoSingle
    /\ \E stem \in Stems, txtf \in FoundTxtFiles, jsnf \in FoundJsonFiles :
          /\ rs = [IdleResolver EXCEPT !.stem = stem]
          /\ fdir = Sidecars(stem, txtf, jsnf)

\* `return <value>`, and an exception that leaves _get_chapters_for.
Return(r, value) == [r EXCEPT !.pc = "done", !.ret = value]
Raised(r, error) == [r EXCEPT !.pc = "raised", !.raised = error]

\* audio.probe: subprocess.run cannot start ffprobe (OSError, e.g.
\* FileNotFoundError when it is not installed); ffprobe exits nonzero, or its
\* output is not JSON, or the duration is not a number (ValueError); the JSON
\* has no format.duration (KeyError); or a duration in seconds is read.
ProbeOutcomes ==
    {[how |-> h, duration |-> 0] : h \in {"OSError", "ValueError", "KeyError"}}
        \cup {[how |-> "ok", duration |-> d] :
                 d \in {0, MIN_ALBUM_DURATION - 1, MIN_ALBUM_DURATION}}
\* get_duration: except (KeyError, ValueError, TypeError): return None
CaughtByGetDuration == {"KeyError", "ValueError", "TypeError"}
get_duration(p) == IF p.how = "ok" THEN p.duration ELSE None
\* Line 113: `duration and duration >= MIN_ALBUM_DURATION`
LongEnough(duration) ==
    duration # None /\ duration # 0 /\ duration >= MIN_ALBUM_DURATION

\* Line 110: `if chapters`.
FoundNothingEver(chapters) == FALSE
FoundSomething(chapters) == chapters # <<>>

\* Lines 107-114: no_split, discovery, the duration probe.
ResolveStart ==
    /\ rs.pc \in {"idle", "done", "raised", "handed"} /\ rs.run < MaxResolves
    /\ \E no_split \in BOOLEAN, probed \in ProbeOutcomes :
          LET r0 == [IdleResolver EXCEPT !.stem = rs.stem, !.run = rs.run + 1,
                                         !.saved = rs.saved,
                                         !.no_split = no_split]
              chapters == find_chapters(ResolvedAudio, fdir).chapters
              r1 == [r0 EXCEPT !.found = chapters]
              r2 == [r1 EXCEPT !.probes = 1, !.probe = probed]
          IN  rs' = IF no_split THEN Return(r0, <<>>)
                    ELSE IF FoundSomething(chapters) THEN Return(r1, chapters)
                    ELSE IF probed.how \notin CaughtByGetDuration \cup {"ok"}
                    THEN Raised(r2, probed.how)
                    ELSE IF ~LongEnough(get_duration(probed)) THEN Return(r2, <<>>)
                    ELSE [r2 EXCEPT !.pc = "lookup"]
    /\ UNCHANGED <<fsvars, wfvars, histvars, splitvars, exceptresolve, fdir>>

\* What the service does for one query of this file's lookup: the search
\* raises, or returns no release, or a best release without id, or one whose
\* track list cannot be fetched, or one with a track list: any list whose
\* tracks all have a length, or a list with a track that has none.
LookedUpAnswers ==
    {[kind |-> "error", releases |-> <<>>], [kind |-> "ok", releases |-> <<>>],
     [kind |-> "ok", releases |-> <<Release(FALSE, FALSE, <<>>)>>],
     [kind |-> "ok", releases |-> <<Release(TRUE, TRUE, <<>>)>>],
     [kind |-> "ok",
      releases |-> <<Release(TRUE, FALSE, <<[length |-> None, title |-> "A"]>>)>>]}
        \cup {[kind |-> "ok", releases |-> <<Release(TRUE, FALSE, tracks)>>] :
                 tracks \in {t \in LookedUpTracks :
                                \A i \in DOMAIN t : t[i].length # None}}
\* In what way the answer to a query fails to give chapters.
Failure(answer) ==
    IF answer.kind = "error" THEN {"exception"}
    ELSE IF answer.releases = <<>> THEN {"no candidate"}
    ELSE IF ~answer.releases[1].id THEN {"no id"}
    ELSE IF answer.releases[1].unfetchable THEN {"exception"}
    ELSE IF \E i \in DOMAIN answer.releases[1].tracks :
               answer.releases[1].tracks[i].length = None THEN {"no length"}
    ELSE IF answer.releases[1].tracks = <<>> THEN {"no tracks"}
    ELSE {}

\* Line 125: `if not mb_chapters`.
NoMatchNever(mb_chapters) == FALSE
NoMatch(mb_chapters) == mb_chapters = <<>>

\* The artist extract_metadata gives for the file; it has no ensemble suffix,
\* so the queries are the artist and album only.
LookedUpArtist == Artist("Miles", "")
\* The service as the lookup meets it: the answer to the first query, and the
\* answer to the second when the first does not end the lookup.
Service(first, second) ==
    [q \in Range(Queries(LookedUpArtist)) |-> IF q = LookedUpArtist THEN first ELSE second]
EndsLookup(first) ==
    Len(lookup_chapters(LookedUpArtist, Service(first, first)).asked) = 1

\* Lines 115-131: the lookup and its answer.
Lookup ==
    /\ rs.pc = "lookup"
    /\ \E first \in LookedUpAnswers :
       \E second \in IF EndsLookup(first) THEN {first} ELSE LookedUpAnswers :
          LET service == Service(first, second)
              found == lookup_chapters(LookedUpArtist, service)
              mb_chapters == found.chapters
              r == [rs EXCEPT !.queries = @ + 1, !.mb = mb_chapters,
                              !.looked = mb_chapters,
                              !.failed = IF mb_chapters # <<>> THEN {}
                                         ELSE UNION {Failure(service[q]) :
                                                       q \in Range(found.asked)}]
          IN  rs' = IF NoMatch(mb_chapters) THEN Return(r, <<>>)
                    ELSE [r EXCEPT !.pc = "prompt"]
    /\ UNCHANGED <<fsvars, wfvars, histvars, splitvars, exceptresolve, fdir>>

\* Lines 132-143: "Use these chapters? [Y/n/e=edit]".
Prompt ==
    /\ rs.pc = "prompt"
    /\ \E answer \in {"y", "", "n", "e", "x", "eof", "interrupt"} :
          LET raw == IF answer \in {"eof", "interrupt"} THEN "n"
                     ELSE IF answer = "" THEN "y" ELSE answer
              r == [rs EXCEPT !.prompts = @ + 1,
                              !.said = @ \cup {IF raw = "y" THEN "accept"
                                               ELSE IF raw = "e" THEN "edit"
                                               ELSE IF answer \in {"eof", "interrupt"}
                                                    THEN "cancel" ELSE "reject"}]
          IN  rs' = IF raw = "e" THEN [r EXCEPT !.pc = "edit"]
                    ELSE IF raw # "y" THEN Return(r, <<>>)
                    ELSE [r EXCEPT !.pc = "write"]
    /\ UNCHANGED <<fsvars, wfvars, histvars, splitvars, exceptresolve, fdir>>

\* edit_chapters, lines 60-77 and 129-130: "Choice [c]", and back in
\* _get_chapters_for lines 139-140: `edit_chapters(mb_chapters) or mb_chapters`
\* and raw = "y".
EditPrompt ==
    /\ rs.pc = "edit"
    /\ \E choice \in {"c", "", "a", "e", "x", "eof", "interrupt"} :
          LET r == [rs EXCEPT !.prompts = @ + 1] IN
          /\ choice = "e" => rs.edits < MaxEdits
          /\ choice = "x" => rs.prompts < MaxPrompts
          /\ rs' = IF choice \in {"c", ""} THEN [r EXCEPT !.pc = "write"]
                   ELSE IF choice = "a"
                   THEN [r EXCEPT !.pc = "write", !.mb = rs.looked,
                                  !.said = @ \cup {"edit_abort"}]
                   ELSE IF choice \in {"eof", "interrupt"}
                   THEN [r EXCEPT !.pc = "write", !.mb = rs.looked,
                                  !.said = @ \cup {"edit_cancel"}]
                   ELSE IF choice = "e" THEN [r EXCEPT !.pc = "editor"]
                   ELSE r
    /\ UNCHANGED <<fsvars, wfvars, histvars, splitvars, exceptresolve, fdir>>

\* edit_chapters, lines 79-128: the editor session and the re-parse.
Editor ==
    /\ rs.pc = "editor"
    /\ \E text \in EditedTexts :
          LET updated == parse_chapters_txt(text) IN
          rs' = [rs EXCEPT !.pc = "edit", !.edits = @ + 1,
                           !.mb = IF updated = <<>> THEN @ ELSE updated]
    /\ UNCHANGED <<fsvars, wfvars, histvars, splitvars, exceptresolve, fdir>>

\* Lines 144-147: the sidecar is written and the chapters returned.
WriteSidecar ==
    /\ rs.pc = "write"
    /\ LET sidecar == with_suffix(ResolvedAudio, ChaptersTxt)
           text == serialize_chapters(rs.mb)
       IN  fdir' = [n \in DOMAIN fdir \cup {sidecar} |->
                       IF n = sidecar THEN text ELSE fdir[n]]
    /\ rs' = [Return(rs, rs.mb) EXCEPT !.wrote = TRUE, !.saved = rs.mb]
    /\ UNCHANGED <<fsvars, wfvars, histvars, splitvars, exceptresolve>>

\* workflow_cmd lines 353-354 and 378-381: with chapters the file is split;
\* without, it is handed to organize_cmd as a single file, unless
\* no_organize.
AfterResolve ==
    /\ rs.pc = "done"
    /\ \E no_organize \in BOOLEAN :
          rs' = [rs EXCEPT !.pc = "handed",
                           !.then = IF rs.ret # <<>> THEN "split"
                                    ELSE IF no_organize THEN "next"
                                    ELSE "organize_file"]
    /\ UNCHANGED <<fsvars, wfvars, histvars, splitvars, exceptresolve, fdir>>

NextResolve ==
    \/ ResolveStart \/ Lookup \/ Prompt \/ EditPrompt \/ Editor \/ WriteSidecar
    \/ AfterResolve

SpecResolve == InitResolve /\ [][NextResolve]_vars

\* Lines 276-289: the entry backfilled from the individual download cache for
\* a video the playlist state has no entry for.
Backfill(v) ==
    IF ind[v] /\ ~audio[v]
    THEN IF dirs[v]["out"].ex
         THEN [status |-> "split", split_dir |-> "out"]
         ELSE [status |-> "organized", split_dir |-> ""]
    ELSE NoRec

\* ------------------------- SpecLoad: a playlist run reads its stored state
\* cache.get: read_text() of the file, None without it.
ReadFails(stored) == stored.file = "bad bytes"
\* cache.get_json: None for no file, an empty file and text json.loads
\* rejects with JSONDecodeError; otherwise whatever json.loads returns.
get_json(stored) ==
    IF stored.file \in {"absent", "empty", "not json"}
    THEN NoState
    ELSE [top |-> stored.top, videos |-> stored.videos, entries |-> stored.entries]
\* dict.setdefault("playlist_id", ...) and dict.setdefault("videos", {})
SetDefaults(state) ==
    [state EXCEPT !.top = Val("dict", 2),
                  !.videos = IF state.videos.t = "missing" THEN Val("dict", 0)
                             ELSE state.videos]

InitLoad ==
    /\ audio = [v \in Items |-> FALSE]
    /\ txt = [v \in Items |-> "absent"]
    /\ jsonch = [v \in Items |-> FALSE]
    /\ dirs = [v \in Items |-> [d \in Dirs |-> NoDir]]
    /\ scache = [k \in Items \X {"a", "b"} |-> "none"]
    /\ ind \in [Items -> BOOLEAN]
    /\ disk = [v \in Items |-> NoRec]
    /\ IdleProcess
    /\ NoSplitRuns
    /\ pool = IdlePool /\ call = NoCall /\ fdir = <<>> /\ rs = IdleResolver
    /\ ar = NoArchive /\ sv = NoSingle
    /\ \E stored \in StoredFiles, dry_run \in BOOLEAN, listed \in SUBSET Items :
          ld = [NotLoading EXCEPT !.pc = "archive", !.stored = stored,
                                  !.dry_run = dry_run, !.archive = listed]

Raise(l, error) == [l EXCEPT !.pc = "crashed", !.raised = error]

\* _prepopulate_archive: "youtube <id>" is appended to the download archive
\* ytdlp_archive_<playlist>.txt (ld.archive: the IDs it lists) for every
\* yt_<id>.txt of the cache directory whose ID it does not list yet.
\* ld.archived: the IDs this run appended.
PrepopulateArchive ==
    /\ ld.pc = "archive"
    /\ LET existing == ld.archive
           new_lines == {v \in Items : ind[v] /\ v \notin existing}
       IN  ld' = [ld EXCEPT !.pc = "load", !.archive = existing \cup new_lines,
                            !.archived = new_lines]
    /\ UNCHANGED <<fsvars, wfvars, histvars, splitvars, exceptload>>

\* _load_playlist_state: state = get_json(...) or {}; the two setdefault.
LoadPlaylistState ==
    /\ ld.pc = "load"
    /\ ld' = IF ReadFails(ld.stored) THEN Raise(ld, "UnicodeDecodeError")
             ELSE LET got == get_json(ld.stored)
                      state == IF Truthy(got.top) THEN got ELSE EmptyDict
                  IN  IF state.top.t # "dict" THEN Raise(ld, "AttributeError")
                      ELSE [ld EXCEPT !.pc = "count", !.state = SetDefaults(state)]
    /\ UNCHANGED <<fsvars, wfvars, histvars, splitvars, exceptload>>

\* tracked = len(playlist_state["videos"]); a dry run ends here.
Tracked ==
    /\ ld.pc = "count"
    /\ ld' = IF ld.state.videos.t \in {"null", "number"} THEN Raise(ld, "TypeError")
             ELSE [ld EXCEPT !.tracked = ld.state.videos.size,
                             !.pc = IF ld.dry_run THEN "done" ELSE "items",
                             !.i = 1]
    /\ UNCHANGED <<fsvars, wfvars, histvars, splitvars, exceptload>>

\* One turn of the loop up to the download: the item's entry is fetched with
\* playlist_state["videos"].get(vid_id, {}), an empty one is backfilled from
\* yt_<id>.txt when there is one, and its status decides whether the item
\* is skipped, resumed from its recorded audio file, or downloaded.
ResumeEntry ==
    /\ ld.pc = "items"
    /\ LET got == IF ld.state.entries[ld.i].t = "missing"
                  THEN EntryValue("dict", 0, "", FALSE)
                  ELSE ld.state.entries[ld.i]
           entry == IF ~Truthy(got) /\ Backfill(ld.i).status # "none"
                    THEN EntryValue("dict", 2, Backfill(ld.i).status, TRUE)
                    ELSE got
           next(how) == [ld EXCEPT !.did = Append(ld.did, how),
                                   !.i = ld.i + 1,
                                   !.pc = IF ld.i = NumItems THEN "done" ELSE "items"]
       IN  ld' = IF ld.state.videos.t # "dict" THEN Raise(ld, "AttributeError")
                 ELSE IF entry.t # "dict" THEN Raise(ld, "AttributeError")
                 ELSE IF entry.status = "organized" THEN next("skipped")
                 ELSE IF entry.status = "downloaded"
                      THEN IF entry.audio_file THEN next("resumed")
                           ELSE Raise(ld, "KeyError")
                 ELSE next("download")
    /\ UNCHANGED <<fsvars, wfvars, histvars, splitvars, exceptload>>

NextLoad == PrepopulateArchive \/ LoadPlaylistState \/ Tracked \/ ResumeEntry

SpecLoad == InitLoad /\ [][NextLoad]_vars

\* -------------------------------- SpecArchive: muzik archive <directory>
\* The directory holds the audio files of the items (those with audio[v]),
\* in sorted order 1..NumItems; the split of file v goes to <output>/<stem>,
\* the directory "out" of v.  A file with a text sidecar may have been split
\* before with its source kept: the split cache then names its directory.
InitArchive ==
    /\ audio \in [Items -> BOOLEAN]
    /\ txt \in [Items -> {"absent", "a"}]
    /\ jsonch \in [Items -> BOOLEAN]
    /\ \E before \in SUBSET {v \in Items : audio[v] /\ txt[v] = "a"} :
          /\ dirs = [v \in Items |-> [d \in Dirs |->
                       IF d = "out" /\ v \in before
                       THEN [ex |-> TRUE, files |-> Chapters] ELSE NoDir]]
          /\ scache = [k \in Items \X {"a", "b"} |->
                         IF k[1] \in before /\ k[2] = "a" THEN "out" ELSE "none"]
    /\ ind = [v \in Items |-> FALSE]
    /\ disk = [v \in Items |-> NoRec]
    /\ IdleProcess
    /\ NoSplitRuns
    /\ pool = IdlePool /\ call = NoCall /\ fdir = <<>> /\ rs = IdleResolver
    /\ ld = NotLoading /\ sv = NoSingle
    /\ \E dry_run \in BOOLEAN, skip_split \in BOOLEAN, skip_organize \in BOOLEAN,
          keep_source \in BOOLEAN :
          ar = [NoArchive EXCEPT !.pc = "start", !.dry_run = dry_run,
                                 !.skip_split = skip_split,
                                 !.skip_organize = skip_organize,
                                 !.keep_source = keep_source]

\* An exception that leaves archive_cmd, and with it the process.
Leaves(a, e) == [a EXCEPT !.pc = "left", !.exc = e]

\* Lines 71-89: the audio files of the directory are listed.
ArchiveList ==
    /\ ar.pc = "start"
    /\ LET audio_files == {v \in Items : audio[v]} IN
       ar' = IF audio_files = {} THEN Leaves(ar, TyperExit(0))
             ELSE [ar EXCEPT !.files = audio_files,
                             !.pc = IF ar.skip_split THEN "organize" ELSE "split",
                             !.i = 1]
    /\ UNCHANGED <<fsvars, wfvars, histvars, splitvars, exceptarchive>>

\* Line 123: `except SystemExit as exc`.
CaughtByArchive(e) == e.cls = "SystemExit"

\* Lines 96-124: one turn of the loop over audio_files (a turn for an item
\* that is not in the list does nothing).
ArchiveFile ==
    /\ ar.pc = "split"
    /\ LET v == ar.i
           on(a) == [a EXCEPT !.i = ar.i + 1,
                              !.pc = IF ar.i = NumItems THEN "organize" ELSE "split"]
           seen == [ar EXCEPT !.examined = @ \cup {v}]
       IN  IF v \notin ar.files THEN
               /\ ar' = on(ar)
               /\ UNCHANGED fsvars
           ELSE IF FindChapters(v) = {} THEN
               /\ ar' = on([seen EXCEPT !.skipped = @ + 1])
               /\ UNCHANGED fsvars
           ELSE IF ar.dry_run THEN
               /\ ar' = on(seen)
               /\ UNCHANGED fsvars
           ELSE
               \E bad \in SUBSET Chapters :
                  LET r == SplitCmd(v, "out", "off", ar.keep_source, bad)
                      did == [seen EXCEPT !.split = @ \cup {v},
                                          !.how = Append(@, r.how)]
                  IN  /\ r.jobs = {} => bad = {}
                      /\ ApplySplit(v, "out", r)
                      /\ ar' = IF r.exc = NoExc
                               THEN on([did EXCEPT !.processed = @ + 1])
                               ELSE IF CaughtByArchive(r.exc) THEN on(did)
                               ELSE Leaves(did, r.exc)
    /\ UNCHANGED <<wfvars, histvars, splitvars, exceptarchive>>

\* Lines 131-155: the organize phase on the output directory.
ArchiveOrganize ==
    /\ ar.pc = "organize"
    /\ IF ar.skip_organize THEN ar' = [ar EXCEPT !.pc = "complete"]
       ELSE IF \A v \in Items : ~dirs[v]["out"].ex THEN ar' = Leaves(ar, TyperExit(0))
       ELSE IF ar.dry_run THEN ar' = [ar EXCEPT !.pc = "complete"]
       ELSE \E rc \in {0, 1} :
               ar' = IF rc = 0 THEN [ar EXCEPT !.pc = "complete", !.tagger = TRUE]
                     ELSE Leaves([ar EXCEPT !.tagger = TRUE], TyperExit(rc))
    /\ UNCHANGED <<fsvars, wfvars, histvars, splitvars, exceptarchive>>

NextArchive == ArchiveList \/ ArchiveFile \/ ArchiveOrganize

SpecArchive == InitArchive /\ [][NextArchive]_vars

\* --------------------------------------------- Spec: the playlist workflow
\* Before the first playlist run an item is either untouched, or was handled
\* by a single-video run of the workflow whose source file was deleted after
\* the split: yt_<v>.txt is set, and splits/<stem> exists ("single_split") or
\* has been imported and removed ("single_gone").
PriorStates == {"fresh", "single_split", "single_gone"}

Init ==
    /\ \E prior \in [Items -> PriorStates] :
          /\ ind = [v \in Items |-> prior[v] # "fresh"]
          /\ dirs = [v \in Items |-> [d \in Dirs |->
                       IF d = "out" /\ prior[v] = "single_split"
                       THEN [ex |-> TRUE, files |-> Chapters] ELSE NoDir]]
    /\ audio = [v \in Items |-> FALSE]
    /\ txt = [v \in Items |-> "absent"]
    /\ jsonch = [v \in Items |-> FALSE]
    /\ scache = [k \in Items \X {"a", "b"} |-> "none"]
    /\ disk = [v \in Items |-> NoRec]
    /\ IdleProcess
    /\ NoSplitRuns
    /\ NoAux

\* _save_playlist_state: the whole in-memory state replaces the stored value.
SaveSkipped(m) == UNCHANGED <<disk, unsaved>>
SaveCurrentOnly(m) ==
    disk' = [v \in Items |-> IF v = idx THEN m[v] ELSE NoRec] /\ unsaved' = 0
Save(m) == disk' = m /\ unsaved' = 0

\* The process ends (normally, killed, or by an uncaught exception): its
\* memory is gone.
Exited ==
    /\ idx' = 0
    /\ mem' = [v \in Items |-> NoRec]
    /\ opts' = NoOpts /\ af' = FALSE /\ sdv' = FALSE /\ exc' = NoExc

\* `continue` / the end of the loop body, with m the state in memory.
Continue(m) ==
    /\ pc' = "next" /\ mem' = m
    /\ af' = FALSE /\ sdv' = FALSE /\ exc' = NoExc
    /\ UNCHANGED <<idx, opts>>

\* workflow_cmd up to the loop: load the state, list the playlist.
BeginRun ==
    /\ pc = "idle" /\ runs < MaxRuns
    /\ runs' = runs + 1
    /\ \E listed \in BOOLEAN :
          IF listed
          THEN /\ \E o \in [no_split : BOOLEAN, no_organize : BOOLEAN,
                            review : BOOLEAN, keep_source : BOOLEAN] : opts' = o
               /\ mem' = disk
               /\ startdisk' = disk
               /\ pc' = "item" /\ idx' = 1
               /\ UNCHANGED <<af, sdv, exc>>
          ELSE /\ pc' = "unlisted"
               /\ UNCHANGED <<idx, mem, opts, af, sdv, exc, startdisk>>
    /\ UNCHANGED <<fsvars, ind, disk, splitvars, auxvars, invoked, dlres, resolved,
                   splitres, tagres, unsaved, raised>>

\* Lines 262-264: no video IDs (yt-dlp failed or printed none): the error is
\* reported and typer.Exit(1) leaves the command, which ends the process with
\* that code.
NoVideoIdsReturns ==
    /\ pc = "unlisted"
    /\ Exited /\ pc' = "idle"
    /\ UNCHANGED <<fsvars, ind, disk, runs, histvars, splitvars, auxvars>>
NoVideoIds ==
    /\ pc = "unlisted"
    /\ pc' = "crashed" /\ exc' = TyperExit(1)
    /\ UNCHANGED <<fsvars, ind, disk, idx, mem, opts, af, sdv, runs, histvars,
                   splitvars, auxvars>>

\* The for loop takes the next video ID, or ends and the command returns.
SameVideoAgain(i) == i
NextVideo(i) == i + 1

Advance ==
    /\ pc = "next"
    /\ IF idx < NumItems
       THEN /\ pc' = "item" /\ idx' = NextVideo(idx)
            /\ UNCHANGED <<mem, opts, af, sdv, exc, startdisk>>
       ELSE /\ Exited /\ pc' = "idle"
            /\ startdisk' = [v \in Items |-> NoRec]
    /\ ForgetHistory
    /\ UNCHANGED <<fsvars, ind, disk, runs, splitvars, auxvars>>

\* The entry the loop works from: the record in the playlist state, else the
\* backfilled one.
Entry(v) == IF mem[v].status # "none" THEN mem[v] ELSE Backfill(v)

\* Path(entry.get("split_dir", "")).exists(); Path("") is the current directory.
SplitDirNeverTrusted(v, e) == FALSE
SplitDirExists(v, e) == IF e.split_dir = "" THEN TRUE ELSE dirs[v][e.split_dir].ex

\* Line 291: a video whose entry says organized is skipped.
IsOrganizedNever(e) == FALSE
IsOrganized(e) == e.status = "organized"

\* Line 309: Path(entry["audio_file"]).exists()
AudioFileTrusted(v) == TRUE
AudioFileExists(v) == audio[v]

\* Lines 273-311: decide where to resume the video.
ItemStart ==
    /\ pc = "item"
    /\ LET v == idx
           entry == Entry(v)
           resumeSplit == entry.status = "split" /\ SplitDirExists(v, entry)
           resumeFile == entry.status = "downloaded" /\ AudioFileExists(v)
       IN  IF IsOrganized(entry) THEN
               Continue(mem)
           ELSE IF resumeSplit THEN
               IF opts.no_organize THEN Continue(mem)
               ELSE /\ pc' = "organize" /\ sdv' = TRUE
                    /\ UNCHANGED <<idx, mem, opts, af, exc>>
           ELSE IF resumeFile THEN
               /\ pc' = "classify" /\ af' = TRUE
               /\ UNCHANGED <<idx, mem, opts, sdv, exc>>
           ELSE
               /\ pc' = "download"
               /\ UNCHANGED <<idx, mem, opts, af, sdv, exc>>
    /\ UNCHANGED <<fsvars, ind, disk, runs, histvars, splitvars, auxvars>>

\* download_cmd: yt-dlp runs.  It downloads the file (with its .info.json,
\* which may or may not list chapters), or exits 0 without a new file (already
\* in the download archive), or exits nonzero.
DownloadTool ==
    /\ pc = "download"
    /\ LET v == idx IN
       /\ invoked' = invoked \cup {"downloader"}
       /\ \/ /\ ~audio[v]
             /\ audio' = [audio EXCEPT ![v] = TRUE]
             /\ \E c \in BOOLEAN : jsonch' = [jsonch EXCEPT ![v] = c]
             /\ exc' = NoExc /\ dlres' = "ok"
             /\ unsaved' = unsaved + 1
          \/ /\ exc' = NoExc /\ dlres' = "ok"
             /\ UNCHANGED <<audio, jsonch, unsaved>>
          \/ /\ exc' = TyperExit(1) /\ dlres' = "fail"
             /\ UNCHANGED <<audio, jsonch, unsaved>>
    /\ pc' = "after_download"
    /\ UNCHANGED <<txt, dirs, scache, ind, disk, idx, mem, opts, af, sdv, runs,
                   startdisk, resolved, splitres, tagres, raised, splitvars, auxvars>>

\* Lines 325-350: the except clause, the search for the file, the record.
AfterDownload ==
    /\ pc = "after_download"
    /\ LET v == idx
           m == [mem EXCEPT ![v] = [status |-> "downloaded", split_dir |-> ""]]
       IN  IF ExcCode(exc) # 0 \/ ~audio[v] THEN
               /\ Continue(mem)
               /\ UNCHANGED <<ind, disk, unsaved>>
           ELSE
               /\ mem' = m
               /\ Save(m)
               /\ ind' = [ind EXCEPT ![v] = TRUE]
               /\ af' = TRUE /\ pc' = "classify" /\ exc' = NoExc
               /\ UNCHANGED <<idx, opts, sdv>>
    /\ UNCHANGED <<fsvars, runs, startdisk, invoked, dlres, resolved, splitres,
                   tagres, raised, splitvars, auxvars>>

\* _get_chapters_for: nothing with no_split; else the chapters discovery
\* finds; else, for a long file, the chapters of a lookup the operator
\* accepts, which are then written to the text sidecar.
NoSplitIgnored(o) == FALSE
NoSplit(o) == o.no_split

Classify ==
    /\ pc = "classify"
    /\ LET v == idx
           single == IF opts.no_organize THEN Continue(mem)
                     ELSE /\ pc' = "organize"
                          /\ UNCHANGED <<idx, mem, opts, af, sdv, exc>>
           album == /\ pc' = "split"
                    /\ resolved' = TRUE
                    /\ UNCHANGED <<idx, mem, opts, af, sdv, exc>>
       IN  IF NoSplit(opts) THEN
               single /\ UNCHANGED <<txt, resolved>>
           ELSE IF FindChapters(v) # {} THEN
               album /\ UNCHANGED txt
           ELSE
               \/ single /\ UNCHANGED <<txt, resolved>>
               \/ album /\ txt' = [txt EXCEPT ![v] = "a"]
    /\ UNCHANGED <<audio, jsonch, dirs, scache, ind, disk, runs, startdisk,
                   invoked, dlres, splitres, tagres, unsaved, raised, splitvars, auxvars>>

\* Lines 355-364: split_cmd(path=af, review, jobs, output=splits/<stem>,
\* keep_source).
SplitStep ==
    /\ pc = "split"
    /\ LET v == idx IN
       \E rv \in IF opts.review THEN {"continue", "edited", "abort"} ELSE {"off"},
          bad \in SUBSET Chapters :
          LET r == SplitCmd(v, "out", rv, opts.keep_source, bad) IN
          /\ r.jobs = {} => bad = {}
          /\ ApplySplit(v, "out", r)
          /\ exc' = r.exc
          /\ splitres' = r.how
          /\ invoked' = IF r.jobs # {} THEN invoked \cup {"extractor"} ELSE invoked
          /\ unsaved' = IF r.how = "ok" THEN unsaved + 1 ELSE unsaved
    /\ pc' = "after_split"
    /\ UNCHANGED <<ind, disk, idx, mem, opts, af, sdv, runs, startdisk, dlres,
                   resolved, tagres, raised, splitvars, auxvars>>

\* Lines 365-378 and 398: the except clause, the record of the split, and the
\* choice of what to organize.
AfterSplit ==
    /\ pc = "after_split"
    /\ LET v == idx
           m == [mem EXCEPT ![v] = [status |-> "split", split_dir |-> "out"]]
       IN  IF ExcCode(exc) # 0 THEN
               /\ Continue(mem)
               /\ UNCHANGED <<disk, unsaved>>
           ELSE IF dirs[v]["out"].ex THEN
               /\ Save(m)
               /\ IF opts.no_organize THEN Continue(m)
                  ELSE /\ pc' = "organize" /\ sdv' = TRUE /\ mem' = m
                       /\ exc' = NoExc
                       /\ UNCHANGED <<idx, opts, af>>
           ELSE
               /\ UNCHANGED <<disk, unsaved>>
               /\ IF opts.no_organize THEN Continue(mem)
                  ELSE /\ pc' = "organize" /\ exc' = NoExc
                       /\ UNCHANGED <<idx, mem, opts, af, sdv>>
    /\ UNCHANGED <<fsvars, ind, runs, startdisk, invoked, dlres, resolved,
                   splitres, tagres, raised, splitvars, auxvars>>

\* organize_cmd on the split directory (sdv) or on the single file: Exit(1)
\* when the path is missing, else beet runs and its exit code is passed on.
OrganizeTool ==
    /\ pc = "organize"
    /\ LET v == idx
           present == IF sdv THEN dirs[v]["out"].ex ELSE audio[v]
       IN  IF ~present THEN
               /\ exc' = TyperExit(1)
               /\ UNCHANGED <<invoked, tagres, unsaved>>
           ELSE
               /\ invoked' = invoked \cup {"tagger"}
               /\ \E rc \in {0, 1} :
                     /\ exc' = IF rc = 0 THEN NoExc ELSE TyperExit(rc)
                     /\ tagres' = IF rc = 0 THEN "ok" ELSE "fail"
                     /\ unsaved' = IF rc = 0 THEN unsaved + 1 ELSE unsaved
    /\ pc' = "after_organize"
    /\ UNCHANGED <<fsvars, ind, disk, idx, mem, opts, af, sdv, runs, startdisk,
                   dlres, resolved, splitres, raised, splitvars, auxvars>>

\* Lines 389-395 and 408-413: the except clause and the record.  Writing the
\* status of a video that has no record raises KeyError, which nothing catches.
AfterOrganize ==
    /\ pc = "after_organize"
    /\ LET v == idx
           m == [mem EXCEPT ![v].status = "organized"]
       IN  IF ExcCode(exc) # 0 THEN
               /\ Continue(mem)
               /\ UNCHANGED <<disk, unsaved, raised>>
           ELSE IF mem[v].status = "none" THEN
               /\ raised' = TRUE
               /\ Exited /\ pc' = "crashed"
               /\ UNCHANGED <<disk, unsaved>>
           ELSE
               /\ Save(m)
               /\ Continue(m)
               /\ UNCHANGED raised
    /\ UNCHANGED <<fsvars, ind, runs, startdisk, invoked, dlres, resolved,
                   splitres, tagres, splitvars, auxvars>>

\* The process is killed.
Kill ==
    /\ pc \notin {"idle", "crashed", "unlisted"}
    /\ Exited /\ pc' = "idle"
    /\ startdisk' = [v \in Items |-> NoRec]
    /\ ForgetHistory
    /\ UNCHANGED <<fsvars, ind, disk, runs, splitvars, auxvars>>

\* The traceback of an uncaught exception has been printed; the shell is back.
Reap ==
    /\ pc = "crashed"
    /\ pc' = "idle" /\ exc' = NoExc
    /\ startdisk' = [v \in Items |-> NoRec]
    /\ ForgetHistory
    /\ UNCHANGED <<fsvars, ind, disk, idx, mem, opts, af, sdv, runs, splitvars, auxvars>>

\* Between runs the operator deletes a downloaded file or a split directory.
DeleteAudio ==
    /\ pc = "idle"
    /\ \E v \in Items :
          /\ audio[v]
          /\ audio' = [audio EXCEPT ![v] = FALSE]
    /\ UNCHANGED <<txt, jsonch, dirs, scache, wfvars, histvars, splitvars, auxvars>>

DeleteSplitDir ==
    /\ pc = "idle"
    /\ \E v \in Items :
          /\ dirs[v]["out"].ex
          /\ dirs' = [dirs EXCEPT ![v]["out"] = NoDir]
    /\ UNCHANGED <<audio, txt, jsonch, scache, wfvars, histvars, splitvars, auxvars>>

Next ==
    \/ BeginRun \/ NoVideoIds \/ Advance \/ ItemStart \/ DownloadTool \/ AfterDownload \/ Classify
    \/ SplitStep \/ AfterSplit \/ OrganizeTool \/ AfterOrganize
    \/ Kill \/ Reap \/ DeleteAudio \/ DeleteSplitDir

Spec == Init /\ [][Next]_vars

\* ------------------------------- SpecSingle: the workflow on one video URL
\* `muzik workflow <video url>` is run up to MaxRuns times for the video of
\* item SingleVideo, whose file may already be in the output directory; the
\* operator may delete the file or its split directory between runs.
\* sv.audio_files, pre_split_dirs, albums, singles and split_dirs say whether
\* the list of that name holds the video's file or directory; sv.cached,
\* had_file and had_dir are what the run found when it started.
SingleVideo == 1

InitSingle ==
    /\ \E there \in BOOLEAN, chapters \in BOOLEAN :
          /\ audio = [v \in Items |-> v = SingleVideo /\ there]
          /\ jsonch = [v \in Items |-> v = SingleVideo /\ there /\ chapters]
    /\ txt = [v \in Items |-> "absent"]
    /\ dirs = [v \in Items |-> [d \in Dirs |-> NoDir]]
    /\ scache = [k \in Items \X {"a", "b"} |-> "none"]
    /\ ind = [v \in Items |-> FALSE]
    /\ disk = [v \in Items |-> NoRec]
    /\ IdleProcess
    /\ NoSplitRuns
    /\ NoAux

\* The command returns, or leaves through typer.Exit(rc): the exit code.
Ends(r, rc) == [r EXCEPT !.pc = "done", !.exit = rc]

\* Line 430: cache_mod.get("yt_<id>")
NeverCached(v) == FALSE
CachedEntry(v) == ind[v]

\* Lines 419-495, Step 1: the cache entry, the search by ID, the download.
SingleDownload ==
    /\ sv.pc \in {"idle", "done"} /\ sv.runs < MaxRuns
    /\ LET v == SingleVideo IN
       \E o \in [dry_run : BOOLEAN, no_split : BOOLEAN, no_organize : BOOLEAN,
                  review : BOOLEAN, keep_source : BOOLEAN] :
          LET r == [NoSingle EXCEPT !.runs = sv.runs + 1, !.dry_run = o.dry_run,
                                    !.no_split = o.no_split,
                                    !.no_organize = o.no_organize,
                                    !.review = o.review,
                                    !.keep_source = o.keep_source,
                                    !.cached = ind[v], !.had_file = audio[v],
                                    !.had_dir = dirs[v]["out"].ex]
              classify(x) == [x EXCEPT !.pc = "classify"]
              nothing(x) == IF x.audio_files \/ x.pre_split_dirs THEN classify(x)
                            ELSE Ends(x, 0)
          IN  IF o.dry_run THEN
                  /\ sv' = classify(r)
                  /\ UNCHANGED <<audio, jsonch, ind>>
              ELSE IF CachedEntry(v) THEN
                  /\ sv' = nothing([r EXCEPT !.audio_files = audio[v],
                                             !.pre_split_dirs = ~audio[v] /\ dirs[v]["out"].ex])
                  /\ UNCHANGED <<audio, jsonch, ind>>
              ELSE IF audio[v] THEN
                  /\ sv' = classify([r EXCEPT !.audio_files = TRUE, !.wrote = TRUE])
                  /\ ind' = [ind EXCEPT ![v] = TRUE]
                  /\ UNCHANGED <<audio, jsonch>>
              ELSE
                  \E rc \in {0, 1}, file \in BOOLEAN, chapters \in BOOLEAN :
                     LET e == IF rc = 0 THEN NoExc ELSE TyperExit(rc)
                         d == [r EXCEPT !.invoked = {"downloader"},
                                        !.dl = IF rc = 0 THEN "ok" ELSE "fail"]
                     IN  /\ audio' = [audio EXCEPT ![v] = file]
                         /\ jsonch' = [jsonch EXCEPT ![v] = file /\ chapters]
                         /\ ~file => ~chapters
                         /\ IF ExcCode(e) # 0 THEN
                                /\ sv' = Ends(d, 1)
                                /\ UNCHANGED ind
                            ELSE
                                /\ sv' = nothing([d EXCEPT !.audio_files = file,
                                                           !.wrote = file])
                                /\ ind' = [ind EXCEPT ![v] = @ \/ file]
    /\ UNCHANGED <<txt, dirs, scache, disk, pc, idx, mem, opts, af, sdv, exc, runs,
                   histvars, splitvars, exceptsingle>>

\* Lines 497-517: _get_chapters_for on each file (as in Classify).
SingleClassify ==
    /\ sv.pc = "classify"
    /\ LET v == SingleVideo
           single == [sv EXCEPT !.pc = "split", !.singles = TRUE]
           album == [sv EXCEPT !.pc = "split", !.albums = TRUE]
       IN  IF ~sv.audio_files THEN sv' = [sv EXCEPT !.pc = "split"] /\ UNCHANGED txt
           ELSE IF sv.no_split THEN sv' = single /\ UNCHANGED txt
           ELSE IF FindChapters(v) # {} THEN sv' = album /\ UNCHANGED txt
           ELSE \/ sv' = single /\ UNCHANGED txt
                \/ sv' = album /\ txt' = [txt EXCEPT ![v] = "a"]
    /\ UNCHANGED <<audio, jsonch, dirs, scache, wfvars, histvars, splitvars, exceptsingle>>

\* Lines 519-549, Step 2a: split_cmd on each album.
SingleSplit ==
    /\ sv.pc = "split"
    /\ LET v == SingleVideo IN
       IF ~sv.albums THEN
           /\ sv' = [sv EXCEPT !.pc = "organize", !.split_dirs = sv.pre_split_dirs]
           /\ UNCHANGED fsvars
       ELSE
           \E rv \in IF sv.review THEN {"continue", "edited", "abort"} ELSE {"off"},
              bad \in SUBSET Chapters :
              LET r == SplitCmd(v, "out", rv, sv.keep_source, bad) IN
              /\ r.jobs = {} => bad = {}
              /\ ApplySplit(v, "out", r)
              /\ sv' = [sv EXCEPT !.pc = "organize", !.split = r.how,
                                  !.invoked = IF r.jobs # {} THEN @ \cup {"extractor"}
                                              ELSE @,
                                  !.split_dirs = IF ExcCode(r.exc) # 0
                                                 THEN sv.pre_split_dirs
                                                 ELSE sv.pre_split_dirs \/ r.dir.ex]
    /\ UNCHANGED <<wfvars, histvars, splitvars, exceptsingle>>

\* Lines 558-598, Step 3: organize_cmd on each split directory, then on
\* each single file; organize_cmd runs beet when the path exists.
SingleOrganize ==
    /\ sv.pc = "organize"
    /\ LET v == SingleVideo
           dirs_run == sv.split_dirs /\ ~sv.dry_run /\ dirs[v]["out"].ex
           files_run == sv.singles /\ ~sv.dry_run /\ audio[v]
       IN  sv' = IF sv.no_organize THEN Ends(sv, 0)
                 ELSE Ends([sv EXCEPT !.tagged = (IF dirs_run THEN {"split_dir"} ELSE {})
                                          \cup (IF files_run THEN {"file"} ELSE {}),
                                      !.invoked = IF dirs_run \/ files_run
                                                  THEN @ \cup {"tagger"} ELSE @], 0)
    /\ UNCHANGED <<fsvars, wfvars, histvars, splitvars, exceptsingle>>

\* Between runs the operator deletes the file or the split directory.
SingleDelete ==
    /\ sv.pc \in {"idle", "done"}
    /\ DeleteAudio \/ DeleteSplitDir

NextSingle ==
    SingleDownload \/ SingleClassify \/ SingleSplit \/ SingleOrganize \/ SingleDelete

SpecSingle == InitSingle /\ [][NextSingle]_vars

\* ================================================================ claims
Rank(st) == CASE st = "none" -> 0 [] st = "downloaded" -> 1
              [] st = "split" -> 2 [] st = "organized" -> 3

InRun == pc \notin {"idle", "crashed", "unlisted"}

\* C1: across playlist runs the status persisted for an item never moves to an
\* earlier value in the order downloaded < split < organized.
C1_StatusNeverRegresses ==
    [][\A v \in Items : Rank(disk'[v].status) >= Rank(disk[v].status)]_vars

\* C2: an item whose persisted status is organized when a run starts has no
\* tool invoked for it in that run and keeps its record, so it never moves
\* back to downloaded or split.
C2_OrganizedIsSkipped ==
    \A v \in Items :
        (InRun /\ startdisk[v].status = "organized") =>
            /\ disk[v] = startdisk[v]
            /\ idx = v => invoked = {}

C2_Witness ==
    /\ pc = "next" /\ idx = NumItems /\ runs = 2
    /\ startdisk[idx].status = "organized"
    /\ \E v \in Items : disk[v] # startdisk[v]

\* C3: the persisted status of an item becomes split only in a run in which the
\* resolver returned chapters and the split of the item succeeded (all
\* chapters extracted, or a cache hit).
C3_SplitOnlyAfterSuccessfulSplit ==
    (InRun /\ idx \in Items) =>
        ((disk[idx].status = "split" /\ startdisk[idx].status # "split") =>
            (resolved /\ splitres \in {"ok", "cached"}))

\* C4: the persisted status of an item becomes organized only after a tagger
\* invocation for it exited with code 0 in the same run; a tagger that exits
\* nonzero leaves the status as it was.
C4_OrganizedOnlyAfterTaggerSuccess ==
    (InRun /\ idx \in Items) =>
        ((disk[idx].status = "organized" /\ startdisk[idx].status # "organized") =>
            tagres = "ok")

\* C5: when the download, split or organize phase fails for an item, the run
\* does not raise out of the loop and the persisted status of the item is the
\* last one it had reached before the failed phase.
C5_FailureKeepsLastStatus ==
    (pc # "idle" /\ idx \in Items) =>
        /\ dlres = "fail" => (~raised /\ disk[idx] = startdisk[idx])
        /\ splitres = "failed" => (~raised /\ disk[idx].status = "downloaded")
        /\ tagres = "fail" => (~raised /\ disk[idx].status # "organized")

\* C6: for an item recorded as split whose split_dir exists, a re-run invokes
\* neither the downloader nor the extractor and goes from the resume decision
\* directly to the tagger on that directory (the step does nothing when the
\* run was asked not to organize).
C6_ResumeFromSplit ==
    [][/\ (pc = "item" /\ startdisk[idx].status = "split"
            /\ dirs[idx][startdisk[idx].split_dir].ex)
         => (/\ invoked' = {}
            /\ IF opts.no_organize THEN pc' \in {"next", "idle"}
               ELSE pc' \in {"organize", "idle"} /\ (pc' = "organize" => sdv'))
       /\ ((pc \in {"organize", "after_organize"} /\ sdv /\ invoked \subseteq {"tagger"})
              => invoked' \subseteq {"tagger"})]_vars

C6_Witness ==
    /\ pc = "after_organize" /\ sdv /\ startdisk[idx].status = "split"
    /\ invoked = {"tagger"}

\* C7: every status change is saved right after the phase that caused it and
\* before the tool of the next phase is invoked: when a tool is about to run
\* nothing is unsaved, and at no point is more than one completed phase
\* missing from the persisted state.
C7_SavedAfterEachPhase ==
    /\ unsaved <= 1
    /\ pc \in {"item", "download", "classify", "split", "organize", "next"} => unsaved = 0
    /\ InRun => \A v \in Items : disk[v] = mem[v]

C7_Witness ==
    /\ pc = "organize" /\ sdv /\ startdisk[idx].status = "none"
    /\ disk[idx].status = "split" /\ splitres = "ok"

\* ------------------------------------------------ claims about muzik split
\* C8 (as stated): running the split twice on the same audio file and chapter
\* definition, nothing modified in between, extracts only in the first run;
\* the second run is a cache hit.  Read in its favour: the first run
\* succeeded and kept its source, and the operator does not abort the second.
C8_SecondRunIsCacheHit ==
    (prev.how = "ok" /\ prev.keep /\ last.dirty = {} /\ last.how # "aborted")
        => (last.how = "cached" /\ last.jobs = {})

\* C8 (amended): the same, for a file whose chapter definition is a
\* .chapters.txt sidecar.
C8_SecondRunIsCacheHitWithTxt ==
    (prev.how = "ok" /\ prev.keep /\ prev.txt # "absent"
        /\ last.dirty = {} /\ last.how # "aborted")
        => (last.how = "cached" /\ last.jobs = {})

C8_Witness ==
    /\ prev.how = "ok" /\ prev.keep /\ prev.txt = "a" /\ prev.d = "out"
    /\ last.dirty = {} /\ last.d = "out"
    /\ last.how = "cached" /\ audio[SplitFile]

\* C9: when some but not all chapters fail, the split ends with Exit(1)
\* reporting exactly the titles of the failed chapters, writes no cache entry,
\* deletes neither the source nor a sidecar, and the files of the chapters
\* that were extracted are in the output directory.
C9_PartialFailure ==
    [][(nsplit' = nsplit + 1 /\ last'.bad # {} /\ last'.jobs \ last'.bad # {})
         => /\ last'.exc = TyperExit(1)
            /\ last'.failed =
                 {ch.title : ch \in {c \in ChapterList(last'.used) : c.index \in last'.bad}}
            /\ scache' = scache
            /\ audio' = audio /\ txt' = txt /\ jsonch' = jsonch
            /\ dirs'[SplitFile][last'.d].ex
            /\ dirs'[SplitFile][last'.d].files =
                 dirs[SplitFile][last'.d].files \cup (last'.jobs \ last'.bad)]_vars

C9_Witness ==
    /\ last.how = "failed" /\ last.bad = {1} /\ last.jobs = Chapters
    /\ last.txt = "a" /\ last.failed = {1}
    /\ dirty = {} /\ audio[SplitFile] /\ txt[SplitFile] = "a"
    /\ scache[<<SplitFile, "a">>] = "none"
    /\ Chapters \ {1} \subseteq dirs[SplitFile][last.d].files

\* C10 (as stated): when every chapter is extracted, the split writes a cache
\* entry mapping the fingerprint of (audio, chapter definition) to the output
\* directory and then deletes the source and its sidecars, or leaves them
\* unchanged with keep_source.
C10_SuccessWritesCacheEntry ==
    [][(nsplit' = nsplit + 1 /\ last'.how = "ok")
         => /\ \E k \in DOMAIN scache : k[1] = SplitFile /\ scache'[k] = last'.d
            /\ IF last'.keep
               THEN audio' = audio /\ txt' = txt /\ jsonch' = jsonch
               ELSE ~audio'[SplitFile] /\ txt'[SplitFile] = "absent"
                    /\ ~jsonch'[SplitFile]]_vars

\* C10 (amended): the cache entry is written when the file has a
\* .chapters.txt sidecar, under the fingerprint of (audio, that sidecar); with
\* chapters from the .info.json alone the cache is left as it was.
C10_SuccessWritesCacheEntryWithTxt ==
    [][(nsplit' = nsplit + 1 /\ last'.how = "ok")
         => /\ IF txt[SplitFile] # "absent"
               THEN scache' = [scache EXCEPT ![<<SplitFile, txt[SplitFile]>>] = last'.d]
               ELSE scache' = scache
            /\ IF last'.keep
               THEN audio' = audio /\ txt' = txt /\ jsonch' = jsonch
               ELSE ~audio'[SplitFile] /\ txt'[SplitFile] = "absent"
                    /\ ~jsonch'[SplitFile]]_vars

C10_Witness ==
    /\ last.how = "ok" /\ last.txt = "a" /\ ~last.keep /\ dirty = {}
    /\ scache[<<SplitFile, "a">>] = last.d
    /\ ~audio[SplitFile] /\ txt[SplitFile] = "absent"


\* C11: within one split the jobs finish in any order, a job is run for every
\* chapter even after another job has failed, and the result, the cache write
\* and the deletion of the source happen only when every job has finished.
C11_ResultAfterAllJobs ==
    [][pool.phase = "running"
         => IF pool'.phase = "running"
            THEN /\ scache' = scache /\ audio' = audio
                 /\ txt' = txt /\ jsonch' = jsonch
                 /\ pool'.result = "none" /\ pool'.failed = {}
            ELSE /\ Range(pool.done) = {ch.index : ch \in FindChapters(SplitFile)}
                 /\ Len(pool.done) = Cardinality(FindChapters(SplitFile))
                 /\ pool'.result = IF pool.bad = {} THEN "ok" ELSE "failed"]_vars

C11_Witness ==
    /\ pool.phase = "closed" /\ pool.done = <<2, 1>> /\ pool.bad = {2}
    /\ pool.result = "failed" /\ pool.failed = {2}
    /\ 1 \in dirs[SplitFile][pool.d].files /\ audio[SplitFile]


\* C12: when the playlist's items cannot be listed, the workflow ends with a
\* nonzero exit code and has invoked neither the downloader, the extractor nor
\* the tagger, for any item.
C12_NoListingNoTools ==
    [][pc = "unlisted"
         => /\ pc' = "crashed" /\ exc'.cls = "typer.Exit" /\ exc'.exit_code # 0
            /\ invoked' = {} /\ dlres' = "none" /\ splitres' = "none"
            /\ tagres' = "none"
            /\ audio' = audio /\ txt' = txt /\ dirs' = dirs /\ disk' = disk]_vars

C12_Witness ==
    /\ pc = "crashed" /\ exc = TyperExit(1) /\ ~raised /\ invoked = {}
    /\ runs = 2 /\ \E v \in Items : disk[v].status = "downloaded"


\* C13: the items are processed one at a time in playlist order: while a run
\* is at item i every tool invocation and every change is for item i, the
\* run moves from item i only to item i + 1, and it starts no item twice.
C13_OneItemAtATimeInOrder ==
    [][/\ (InRun /\ InRun')
            => /\ idx' = idx \/ (pc = "next" /\ idx' = idx + 1)
               /\ (pc' = "item" /\ pc # "idle") => (pc = "next" /\ idx' = idx + 1)
       /\ InRun
            => \A v \in Items \ {idx} :
                  /\ audio'[v] = audio[v] /\ txt'[v] = txt[v]
                  /\ jsonch'[v] = jsonch[v] /\ dirs'[v] = dirs[v]
                  /\ disk'[v] = disk[v]
       /\ (pc = "idle" /\ InRun') => (pc' = "item" /\ idx' = 1)]_vars

C13_Witness ==
    /\ pc = "download" /\ idx = 2 /\ invoked = {}
    /\ startdisk[1].status = "none" /\ disk[1].status = "organized"


\* ------------------------------------------- claims about chapters.py
Parsed == call.fn \in {"parse_chapters_txt", "parse_chapters_json"}

C15_RoundTrip ==
    (call.fn = "roundtrip" /\ \A i \in DOMAIN call.input : call.input[i].title # "")
        => call.output = call.input

\* C16: discovery for a file returns the parse result of its text sidecar
\* whenever that sidecar exists with non-zero size, without consulting the
\* JSON sidecar; otherwise the JSON sidecar's chapters when non-empty;
\* otherwise nothing.
C16_DiscoveryOrder ==
    call.fn = "find_chapters" =>
        LET txtf == call.input[2]
            jsnf == call.input[3]
        IN  IF txtf.exists /\ txtf.content # <<>>
            THEN call.output = parse_chapters_txt(txtf.content) /\ "json" \notin call.read
            ELSE IF jsnf.exists /\ jsnf.content # <<>>
            THEN call.output = parse_chapters_json(jsnf.content) /\ call.output # <<>>
            ELSE call.output = <<>>


\* ------------------------------------- claims about the chapter resolver
\* C17: when discovery returns a non-empty sequence the resolver returns
\* exactly that sequence and has neither probed the duration, queried the
\* lookup service, prompted the operator nor written a sidecar.
C17_DiscoveredChaptersAreReturned ==
    (rs.pc = "done" /\ rs.found # <<>>)
        => /\ rs.ret = rs.found
           /\ rs.probes = 0 /\ rs.queries = 0 /\ rs.prompts = 0 /\ ~rs.wrote

C17_Witness ==
    /\ rs.pc = "done" /\ rs.run = 1 /\ Len(rs.found) = 1 /\ rs.ret = rs.found
    /\ rs.found = find_chapters(ResolvedAudio, fdir).chapters
    /\ rs.probes = 0 /\ rs.queries = 0 /\ rs.prompts = 0 /\ rs.saved = <<>>

\* C18: an accepted looked-up sequence is written to the text sidecar next to
\* the source, and on every later run of the resolver discovery returns a
\* non-empty sequence with the same number of chapters, titles and starts,
\* and the lookup service is not queried again.
C18_AcceptedChaptersAreFoundAgain ==
    /\ rs.wrote
         => /\ with_suffix(ResolvedAudio, ChaptersTxt) \in DOMAIN fdir
            /\ fdir[with_suffix(ResolvedAudio, ChaptersTxt)] = serialize_chapters(rs.saved)
    /\ (rs.run > 1 /\ ~rs.no_split /\ rs.saved # <<>> /\ ~rs.wrote)
         => /\ rs.queries = 0
            /\ Len(rs.found) = Len(rs.saved)
            /\ \A i \in DOMAIN rs.found :
                  /\ rs.found[i].title = rs.saved[i].title
                  /\ rs.found[i].start = rs.saved[i].start

\* C19: when the operator rejects the looked-up sequence, or cancels
\* (interrupt or end of input) at a prompt of the decision step or of its edit
\* dialogue, the resolver returns nothing and writes no sidecar.
C19_RejectOrCancelWritesNothing ==
    (rs.pc = "done" /\ rs.said \cap {"reject", "cancel", "edit_cancel"} # {})
        => (rs.ret = <<>> /\ ~rs.wrote)

\* ------------------------------- claims about the stored playlist state
\* The stored value has the shape the program writes: an object whose
\* "videos" is an object of entries with a status and an audio file.
WellFormed(stored) ==
    /\ stored.file = "json" /\ stored.top.t = "dict" /\ stored.videos.t \in {"missing", "dict"}
    /\ \A v \in Items :
          \/ stored.entries[v].t = "missing"
          \/ /\ stored.entries[v].t = "dict"
             /\ stored.entries[v].status \in {"downloaded", "organized"}
             /\ stored.entries[v].status = "downloaded" => stored.entries[v].audio_file
Malformed(stored) == stored.file # "absent" /\ ~WellFormed(stored)

\* C20: a stored playlist state that is not valid JSON, or is valid JSON of
\* an unexpected shape, is treated as absent: no exception is raised, the
\* loaded state is the empty one with no item tracked, and every item is
\* processed as a new one.
C20_MalformedIsAbsent ==
    (ld.pc \notin {"idle", "archive", "load"} /\ Malformed(ld.stored))
        => /\ ld.raised = ""
           /\ ld.state = SetDefaults(EmptyDict)
           /\ ld.tracked = 0
           /\ \A k \in DOMAIN ld.did :
                 ld.did[k] = IF Backfill(k).status = "organized" THEN "skipped"
                             ELSE "download"

\* ------------------------------------ claims about resuming a playlist run
\* C21: an item recorded as downloaded whose audio file is gone goes to the
\* download step first, with no file chosen and before any resolver, splitter
\* or tagger step; the file handed to the resolver exists; and when the
\* download and the search by ID find no file the item is left, its record
\* still downloaded.
C21_StaleFileIsRederived ==
    [][/\ (pc = "item" /\ mem[idx].status = "downloaded" /\ ~audio[idx])
            => \/ pc' = "idle"
               \/ /\ pc' = "download" /\ ~af'
                  /\ invoked' = {} /\ ~resolved' /\ splitres' = "none" /\ tagres' = "none"
       /\ (pc = "after_download" /\ pc' # "idle"
           /\ startdisk[idx].status = "downloaded" /\ ~audio[idx])
            => /\ pc' = "next"
               /\ invoked' = {"downloader"} /\ ~resolved'
               /\ disk'[idx] = startdisk[idx]
       /\ (pc' = "classify" /\ pc # "classify") => (af' /\ audio'[idx])]_vars

C21_Witness ==
    /\ pc = "next" /\ runs = 2
    /\ startdisk[idx].status = "downloaded" /\ ~audio[idx]
    /\ invoked = {"downloader"} /\ dlres = "ok"
    /\ disk[idx].status = "downloaded"

\* ---------------------------------------- claims about the width of a split
\* C22: during one split at most W extraction jobs are in flight, where W is
\* the configured jobs value when it is positive and otherwise
\* max(2, min(8, cpu_count div 2)), cpu_count being 4 when unknown; the
\* default W lies in 2..8.
C22_AtMostWJobsInFlight ==
    pool.phase = "running" =>
        LET cpu_count == IF pool.cpu = None THEN 4 ELSE pool.cpu
            half == cpu_count \div 2
            capped == IF half > 8 THEN 8 ELSE half
            default == IF capped < 2 THEN 2 ELSE capped
            W == IF pool.jobs > 0 THEN pool.jobs ELSE default
        IN  /\ Cardinality(pool.running) <= W
            /\ pool.workers = W
            /\ pool.jobs <= 0 => W \in 2..8

C22_Witness ==
    /\ pool.phase = "running" /\ pool.jobs = 0 /\ pool.cpu = 1
    /\ Cardinality(pool.running) = 2 /\ pool.workers = 2

\* ------------------------------------------ claims about the split cache
\* C23: a split that finds a cache entry naming a directory that no longer
\* exists treats the entry as absent: it is not a cache hit, a job is run for
\* every chapter, and when the split succeeds the entry names the new output
\* directory.
C23_DeletedDirIsNotCached ==
    [][(/\ nsplit' = nsplit + 1
        /\ audio[SplitFile] /\ FindChapters(SplitFile) # {}
        /\ last'.how # "aborted"
        /\ CacheKey(SplitFile) # <<>>
        /\ scache[CacheKey(SplitFile)] # "none"
        /\ ~dirs[SplitFile][scache[CacheKey(SplitFile)]].ex)
         => /\ last'.how \in {"ok", "failed"}
            /\ last'.jobs = {ch.index : ch \in FindChapters(SplitFile)}
            /\ last'.how = "ok" => scache'[CacheKey(SplitFile)] = last'.d]_vars

\* ------------------------------------------ claims about chapter offsets
\* C24: in every sequence the text parser or the JSON parser returns, the
\* start offsets are strictly increasing by index, and each chapter that has
\* an end has a positive duration end - start.
C24_StartsStrictlyIncrease ==
    Parsed =>
        /\ \A i \in DOMAIN call.output :
              i < Len(call.output) => call.output[i].start < call.output[i + 1].start
        /\ \A i \in DOMAIN call.output :
              call.output[i].end # None => call.output[i].end - call.output[i].start > 0

\* -------------------------------------- claims about the duration threshold
\* C25: for a file without chapter markers whose probed duration is below
\* 480 seconds, or whose duration cannot be probed, the resolver returns
\* empty, and has neither queried the lookup service nor prompted the
\* operator.
C25_ShortOrUnprobedIsNotLookedUp ==
    (/\ rs.pc \in {"done", "raised"} /\ ~rs.no_split /\ rs.found = <<>>
     /\ rs.probes = 1
     /\ (rs.probe.how # "ok" \/ rs.probe.duration < 480))
        => /\ rs.pc = "done" /\ rs.ret = <<>>
           /\ rs.queries = 0 /\ rs.prompts = 0 /\ ~rs.wrote

\* ----------------------------------------------- claims about the lookup
\* The k-th query the claim names for an artist, and whether the service's
\* best release for a query converts to a non-empty chapter sequence.
VariantOrder(artist) ==
    <<artist>>
        \o (IF artist.suffix \in EnsembleSuffixes THEN <<[artist EXCEPT !.suffix = ""]>>
            ELSE <<>>)
        \o <<[name |-> "", suffix |-> ""]>>
Converts(service, q) ==
    /\ service[q].kind = "ok" /\ service[q].releases # <<>>
    /\ service[q].releases[1].id /\ ~service[q].releases[1].unfetchable
    /\ service[q].releases[1].tracks # <<>>
    /\ \A i \in DOMAIN service[q].releases[1].tracks :
          service[q].releases[1].tracks[i].length # None

\* C26: the lookup asks its query variants in the order exact artist, artist
\* with the ensemble suffix stripped, album only; it stops at the first
\* variant whose best release converts to a non-empty sequence and returns
\* that sequence; variants without a release, or whose best release has a
\* track without a length, are skipped; the result is empty when every
\* variant is skipped.  (Stated for lookups in which no call to the service
\* raises.)
C26_FirstConvertingVariant ==
    (call.fn = "lookup_chapters" /\ ~call.output.raised) =>
        LET artist == call.input[1]
            service == call.input[2]
            order == VariantOrder(artist)
            hits == {i \in DOMAIN order : Converts(service, order[i])}
            first == CHOOSE i \in hits : \A j \in hits : i <= j
        IN  IF hits = {}
            THEN call.output.asked = order /\ call.output.chapters = <<>>
            ELSE /\ call.output.asked = SubSeq(order, 1, first)
                 /\ call.output.chapters =
                       tracks_to_chapters(service[order[first]].releases[1].tracks)
                 /\ call.output.chapters # <<>>

C26_Witness ==
    /\ call.fn = "lookup_chapters" /\ ~call.output.raised
    /\ call.input[1] = Artist("Miles", " Trio")
    /\ Len(call.output.asked) = 3
    /\ call.input[2][Artist("Miles", " Trio")].releases = <<>>
    /\ Len(call.input[2][Artist("Miles", "")].releases) = 2
    /\ ~Converts(call.input[2], Artist("Miles", ""))
    /\ Converts(call.input[2], NoArtist)
    /\ call.output.chapters # <<>>

\* ------------------------------------ claims about the track conversion
\* C27: a track list in which every track has a length converts to one
\* chapter per track, indexed from 1, the first starting at 0, each next one
\* starting where the previous ends, a chapter's end being its start plus the
\* whole seconds of its track; a list with a track without a length converts
\* to the empty sequence.
C27_CumulativeStarts ==
    call.fn = "tracks_to_chapters" =>
        IF \A i \in DOMAIN call.input : call.input[i].length # None
        THEN /\ Len(call.output) = Len(call.input)
             /\ \A i \in DOMAIN call.output :
                   /\ call.output[i].index = i
                   /\ call.output[i].start =
                         (IF i = 1 THEN 0
                          ELSE call.output[i - 1].start + call.input[i - 1].length \div 1000)
                   /\ call.output[i].end =
                         (IF i < Len(call.output) THEN call.output[i + 1].start
                          ELSE call.output[i].start + call.input[i].length \div 1000)
        ELSE call.output = <<>>

C27_Witness ==
    /\ call.fn = "tracks_to_chapters" /\ Len(call.output) = 3
    /\ call.input[1].length = 59999 /\ call.input[2].length = 3600000
    /\ call.output[2].start = 59 /\ call.output[3].start = 3659
    /\ call.output[3].end = 3718

\* ------------------------------------ claims about a failing lookup
\* C28: when the lookup fails (a call to the service raises, or every query
\* ends with no candidate, a candidate without id, or a track without
\* length), the resolver returns empty without raising, prompting or writing,
\* and the workflow does not split the file: it hands the single file to the
\* tagger (or, with no_organize, goes on to the next item).
C28_LookupFailureIsNoChapters ==
    (rs.pc \in {"done", "raised", "handed"} /\ rs.queries = 1 /\ rs.looked = <<>>)
        => /\ rs.failed # {}
           /\ rs.pc # "raised" /\ rs.raised = ""
           /\ rs.ret = <<>> /\ rs.prompts = 0 /\ ~rs.wrote
           /\ rs.pc = "handed" => rs.then \in {"organize_file", "next"}

C28_Witness ==
    /\ rs.pc = "handed" /\ rs.then = "organize_file" /\ rs.queries = 1
    /\ rs.failed = {"no id", "exception"} /\ rs.ret = <<>>

\* ------------------------------------- claims about items without chapters
\* C29: an item for which the resolver returns no chapters, and any item
\* classified with no_split, is never split: the resolver's step leads to the
\* tagger on the single file (or to the next item) with the record still
\* downloaded; the extractor is not invoked and split is not persisted for
\* it; and a successful tagger invocation takes the record from downloaded
\* to organized.
C29_NoChaptersNoSplit ==
    [][/\ (pc = "classify" /\ opts.no_split /\ pc' # "idle")
            => (~resolved' /\ pc' # "split")
       /\ (pc = "classify" /\ ~resolved' /\ pc' # "idle")
            => /\ pc' \in {"organize", "next"} /\ ~sdv'
               /\ "extractor" \notin invoked' /\ splitres' = "none"
               /\ disk' = disk /\ disk[idx].status = "downloaded"
       /\ (pc \in {"organize", "after_organize"} /\ ~sdv /\ ~resolved /\ pc' # "idle")
            => /\ "extractor" \notin invoked' /\ splitres' = "none"
               /\ disk'[idx].status # "split"
               /\ (pc = "after_organize" /\ tagres = "ok")
                    => /\ pc' = "next"
                       /\ disk[idx].status = "downloaded"
                       /\ disk'[idx].status = "organized"]_vars

C29_Witness ==
    /\ pc = "next" /\ ~opts.no_split /\ ~resolved /\ tagres = "ok"
    /\ invoked = {"downloader", "tagger"} /\ splitres = "none"
    /\ startdisk[idx].status = "none" /\ disk[idx].status = "organized"
    /\ audio[idx]

\* ------------------------------------------------ claims about metadata
\* C30: metadata extraction returns the four fields title, artist, album and
\* year whatever the sidecar JSON (absent, unparseable, parseable) and the
\* probe (success, failure) are; a parseable sidecar is used in preference to
\* the probe's tags, and the probe's tags in preference to the fallback
\* derived from the file name.
C30_MetadataPreference ==
    call.fn = "extract_metadata" =>
        LET info == call.input[2]
            probed == call.input[3]
        IN  /\ {"title", "artist", "album", "year"} \subseteq DOMAIN call.output
            /\ info.kind = "object" => call.output.source = "sidecar"
            /\ (info.kind \in {"absent", "unparseable"} /\ probed.how = "ok")
                  => call.output.source = "probe"
            /\ (info.kind \in {"absent", "unparseable"} /\ probed.how # "ok")
                  => call.output.source = "fallback"

\* ------------------------------------------- claims about muzik archive
\* C31: in the archive command the outcome of splitting one file (a failed
\* split, or a split served from the cache) never stops the loop: every
\* remaining audio file of the directory is still examined and split in the
\* same invocation.
C31_EveryFileIsExamined ==
    (ar.pc \in {"organize", "complete", "left"} /\ ~ar.skip_split /\ ar.files # {})
        => ar.examined = ar.files

\* ------------------------------------------------ claims about a dry run
\* C32: a workflow invocation with dry_run set makes no changes: it invokes
\* no downloader, extractor or tagger and writes nothing to the playlist
\* state, the per-video download cache, the split cache or the
\* download-archive file.
C32_DryRunChangesNothing ==
    ld.dry_run =>
        /\ ld.archived = {}
        /\ ld.did = <<>>
        /\ disk = [v \in Items |-> NoRec]
        /\ \A k \in DOMAIN scache : scache[k] = "none"

\* ------------------------------------ claims about the single-video workflow
\* C33: in the single-video workflow a download that exits with a nonzero
\* code aborts the workflow with exit code 1: no resolver, splitter or tagger
\* step is run for that URL and no download-cache entry is written.
C33_FailedDownloadAborts ==
    sv.dl = "fail" =>
        /\ sv.pc = "done" /\ sv.exit = 1
        /\ sv.invoked = {"downloader"}
        /\ ~sv.albums /\ ~sv.singles /\ sv.split = "none"
        /\ ~ind[SingleVideo]

\* C34: in the single-video workflow, once the video's download-cache entry
\* exists no later run invokes the downloader for it: a cached file that still
\* exists is reused, and when it was deleted after a split the run goes to the
\* tagger on the existing split directory named after the file's stem (unless
\* the run was asked not to organize).
C34_CachedIsNeverDownloadedAgain ==
    (sv.pc # "idle" /\ sv.cached /\ ~sv.dry_run) =>
        /\ "downloader" \notin sv.invoked
        /\ sv.had_file => sv.audio_files
        /\ (~sv.had_file /\ sv.had_dir) =>
              /\ sv.pre_split_dirs /\ ~sv.audio_files
              /\ sv.invoked \subseteq {"tagger"}
              /\ (sv.pc = "done" /\ ~sv.no_organize) => sv.tagged = {"split_dir"}

C34_Witness ==
    /\ sv.pc = "done" /\ sv.cached /\ ~sv.had_file /\ sv.had_dir
    /\ sv.tagged = {"split_dir"} /\ sv.runs = 2

\* -------------------------------- claims about the playlist state's records
\* C35: every write of an item's status into the playlist state targets an
\* item that has a record there, so the write cannot fail: after a tagger run
\* that succeeded the item is recorded as organized and the run continues
\* with the next item, also for an item absent from the playlist state that
\* was resumed at split through the backfill from its individual download
\* cache.
C35_StatusWriteHasRecord ==
    [][(pc = "after_organize" /\ tagres = "ok" /\ pc' # "idle")
          => /\ ~raised' /\ pc' = "next"
             /\ disk'[idx].status = "organized"]_vars

\* C36: whenever the playlist workflow records a split_dir for an item, that
\* directory holds the extracted tracks of the item: when the split is served
\* from the split cache, the directory recorded (and later handed to the
\* tagger) is the cached output directory and not one merely created by the
\* current invocation.
C36_RecordedSplitDirHoldsTracks ==
    [][(pc = "after_split" /\ splitres = "cached" /\ disk'[idx].status = "split"
          /\ disk'[idx] # disk[idx])
          => dirs[idx][disk'[idx].split_dir].files # {}]_vars

\* -------------------------------------------- claims about the split cache
\* C37: every split-cache entry maps the fingerprint of (audio content,
\* chapter sidecar content) to a directory produced by extracting exactly the
\* chapters that sidecar content defines: a split whose chapter list was
\* changed in the review editor, or came from the JSON sidecar, never writes
\* an entry under a key computed from a text sidecar that defines a different
\* chapter list.
C37_EntryIsOfTheSidecarsChapters ==
    (last.how = "ok" /\ last.txt # "absent"
        /\ scache[<<SplitFile, last.txt>>] = last.d)
        => last.used = last.txt

\* ------------------------------------------ claims about an aborted review
\* C38: in the playlist workflow, when the operator aborts the chapter review
\* of an item (the split ends with exit code 0 without extracting anything),
\* that run invokes no tagger for the item and its persisted status stays
\* downloaded, so a later run offers the split again.
C38_AbortedReviewStaysDownloaded ==
    (InRun /\ idx \in Items /\ splitres = "aborted") =>
        /\ "tagger" \notin invoked
        /\ disk[idx].status = "downloaded"

\* ------------------------------------------- claims about the output files
\* C39: within one split no two extraction jobs write the same output path:
\* for chapters with distinct indices the output file names (two-digit-padded
\* index, hyphen, slug of the title) are pairwise distinct, even when the
\* titles are equal or slug to the same string.
C39_OutputPathsAreDistinct ==
    call.fn = "out_path" => call.output[1] # call.output[2]

C39_Witness ==
    /\ call.fn = "out_path"
    /\ call.input[1].title = <<"A", "?">> /\ call.input[2].title = <<" ", "a">>
    /\ call.input[1].index = 10 /\ call.input[2].index = 100
    /\ call.output = <<<<"1", "0", "-", "a", ".flac">>, <<"1", "0", "0", "-", "a", ".flac">>>>

\* C40: persisting a status change for one playlist item leaves the records
\* of all other items in the playlist state unchanged: after any run, every
\* item that had a record before the run still has one, and only items
\* processed in the run have a changed record.
C40_OtherRecordsUnchanged ==
    [][/\ \A v \in Items : v # idx => disk'[v] = disk[v]
       /\ \A v \in Items : disk[v].status # "none" => disk'[v].status # "none"
       /\ InRun' => \A v \in Items : v > idx' => disk'[v] = startdisk'[v]]_vars

C40_Witness ==
    /\ pc = "next" /\ idx = NumItems /\ runs = 2
    /\ startdisk[1].status = "downloaded" /\ disk[1].status = "organized"
    /\ startdisk[idx].status = "split" /\ disk[idx].status = "organized"

=============================================================================
